---- MODULE Spec2Model ----
(***************************************************************************)
(* Horse-racing game: the Zustand game store (useGameStore), the ref-based *)
(* race animation hook (useRefBasedRaceAnimation), the frame clock         *)
(* (useAnimationFrame), the race physics (raceAnimationUtils) and the      *)
(* roster / schedule generators.                                           *)
(*                                                                         *)
(* Numbers.  The source computes with floating point; the model computes   *)
(* the same quantities exactly, as integers over fixed denominators:       *)
(*   Math.random()    r        in tenths          (r = 9 is 0.9)           *)
(*   speed            speed    in 1/200           (150 is 0.75)            *)
(*   speed variation  sv       in 1/100           (80 is 0.8)              *)
(*   position         position in 1/PosDen(distance) percent, so that      *)
(*                    "100 percent" is the numerator Finish(distance)      *)
(*   time             milliseconds                                         *)
(* React commits a store update (render, effect clean-up, effects) in the  *)
(* same task as the update (createRoot, useSyncExternalStore), so no frame *)
(* callback runs between a store action and the effects it triggers: every *)
(* action below includes the effects of the hooks that depend on it.       *)
(***************************************************************************)
EXTENDS Integers, Sequences, FiniteSets, TLC

\* ------------------------------------------------------------------ bounds
\* Roster size (the source slices 20 names).
NumHorses == 3
\* Participants per race (the source takes the first 10 of the shuffle).
HorsesPerRace == 2
\* Rounds of a schedule: a prefix of ROUND_DISTANCES (6 in the source).
NumRounds == 2
\* The cap useAnimationFrame puts on deltaTime, in ms (100 in the source);
\* scaled up so that a race lasts a handful of frames instead of some hundred.
MaxDeltaTime == 5000
\* The clock stops the model at this time (ms).
MaxTime == 35001
\* Deferred start-next-race callbacks that may be pending together.
MaxTimers == 2
\* The clock stops a game that is left to run (no pause, no reset, no
\* reload) at this time (ms).
MaxRunTime == 60001
\* Calls of calculateNewPosition made on one list of participant states when
\* the function is called on its own.
MaxCalls == 2
\* The longest array shuffleArray is called with on its own.
MaxArrayLen == 4

\* The values Math.random() is drawn from, in tenths.
RandomValues == {0, 9}
\* Milliseconds between two animation frames (or from the start of the loop
\* to its first frame).
FrameGaps == {5000, 10000}

\* --------------------------------------------------------------- constants
BASE_DISTANCE == 1200
SPEED_DIVISOR == 50
ROUND_DISTANCES == <<1200, 1400, 1600, 1800, 2000, 2200>>

IDLE == "idle"
HORSES_READY == "horses_ready"
SCHEDULE_READY == "schedule_ready"
RACING == "racing"
PAUSED == "paused"
COMPLETED == "completed"
GameStates == {IDLE, HORSES_READY, SCHEDULE_READY, RACING, PAUSED, COMPLETED}

PENDING == "pending"
RUNNING == "running"
RACE_COMPLETED == "completed"

\* null / undefined, and a present value: an optional is a sequence of
\* length 0 or 1.
Null == <<>>
Some(x) == <<x>>
Val(o) == o[1]

Min(a, b) == IF a <= b THEN a ELSE b

\* ------------------------------------------------------------------- state
VARIABLES
    gameState,              \* store: GameState
    horses,                 \* store: the roster
    schedule,               \* store: Null or Some(sequence of races)
    raceExecution,          \* store: RaceExecutionState
    results,                \* store: completed race results
    currentRoundIndex,      \* store: 0-based index of the race in turn
    positionsRef,           \* useRefBasedRaceAnimation: positionsRef.current
    animationStartTimeRef,  \* useRefBasedRaceAnimation: animationStartTimeRef.current
    previousTimeRef,        \* useAnimationFrame: previousTimeRef.current
    requestRef,             \* useAnimationFrame: the pending frame request, as
                            \* what its callback captured (Null: none pending)
    timers,                 \* pending setTimeout(startNextRace) callbacks
    storage,                \* localStorage: the persisted record (Null: none)
    now,                    \* the wall clock (Date.now(), frame timestamps)
    staleTimers,            \* history: how many of the pending callbacks were
                            \* scheduled before the latest resetGame or
                            \* schedule generation
    lastCall                \* history: the operation of the latest step and the
                            \* game state it was invoked in

storeVars == <<gameState, horses, schedule, raceExecution, results, currentRoundIndex>>
hookVars == <<positionsRef, animationStartTimeRef, previousTimeRef, requestRef>>
vars == <<gameState, horses, schedule, raceExecution, results, currentRoundIndex,
          positionsRef, animationStartTimeRef, previousTimeRef, requestRef,
          timers, storage, now, staleTimers, lastCall>>

\* The value of lastCall in a step of operation `name`.
Called(name) == [name |-> name, from |-> gameState]

\* The store's state as one record (what get() returns).
State ==
    [gameState |-> gameState, horses |-> horses, schedule |-> schedule,
     raceExecution |-> raceExecution, results |-> results,
     currentRoundIndex |-> currentRoundIndex]

\* ---------------------------------------------------------- race physics
\* A calculateHorseSpeed that adds the condition's share before halving it:
\* 0.5 + condition / 100.
calculateHorseSpeedFullShare(condition) == 100 + 2 * condition

\* raceHelpers.calculateHorseSpeed: 0.5 + (condition / 100) * 0.5, in 1/200.
calculateHorseSpeed(condition) == 100 + condition

\* A generateSpeedVariation without the 0.8 it starts from: Math.random() * 0.4.
generateSpeedVariationFromZero(r) == 4 * r

\* raceAnimationUtils.generateSpeedVariation: 0.8 + Math.random() * 0.4, in 1/100.
generateSpeedVariation(r) == 80 + 4 * r

\* Denominator of the positions of a race over `distance`:
\* moveAmount = speed * sv * (deltaTime / (SPEED_DIVISOR * distance / BASE_DISTANCE))
\*            = speed200 * sv100 * deltaTime * BASE_DISTANCE
\*              / (200 * 100 * SPEED_DIVISOR * distance)
\* with numerator and denominator divided by 400 to keep the numbers small.
PosDen(distance) == ((200 * 100 * SPEED_DIVISOR) \div 400) * distance
\* The finish line (position 100) as a numerator.
Finish(distance) == 100 * PosDen(distance)

\* A calculateNewPosition that moves a participant as on the base distance
\* whatever the distance of the race: deltaTime / SPEED_DIVISOR, which over
\* PosDen(distance) is distance / BASE_DISTANCE times the movement.
calculateNewPositionAnyDistance(hp, deltaTime, distance, speedVariation, currentTime) ==
    IF hp.finishTime # Null
    THEN hp
    ELSE LET moveAmount == (hp.speed * speedVariation * (deltaTime \div 100)
                              * (BASE_DISTANCE \div 400) * (distance \div 100))
                           \div (BASE_DISTANCE \div 100)
             newPosition == Min(hp.position + moveAmount, Finish(distance))
             justFinished == hp.position < Finish(distance)
                             /\ newPosition >= Finish(distance)
         IN [hp EXCEPT !.position = newPosition,
                       !.finishTime = IF justFinished THEN Some(currentTime)
                                      ELSE hp.finishTime]

\* A calculateNewPosition that keeps the speed of the frame (the speed times
\* the speed variation) as the participant's speed.
calculateNewPositionKeepsVariedSpeed(hp, deltaTime, distance, speedVariation, currentTime) ==
    IF hp.finishTime # Null
    THEN hp
    ELSE LET moveAmount == hp.speed * speedVariation * deltaTime * (BASE_DISTANCE \div 400)
             newPosition == Min(hp.position + moveAmount, Finish(distance))
             justFinished == hp.position < Finish(distance)
                             /\ newPosition >= Finish(distance)
         IN [hp EXCEPT !.position = newPosition,
                       !.speed = (hp.speed * speedVariation) \div 100,
                       !.finishTime = IF justFinished THEN Some(currentTime)
                                      ELSE hp.finishTime]

\* A calculateNewPosition without the cap at 100.
calculateNewPositionUncapped(hp, deltaTime, distance, speedVariation, currentTime) ==
    IF hp.finishTime # Null
    THEN hp
    ELSE LET moveAmount == hp.speed * speedVariation * deltaTime * (BASE_DISTANCE \div 400)
             newPosition == hp.position + moveAmount
             justFinished == hp.position < Finish(distance)
                             /\ newPosition >= Finish(distance)
         IN [hp EXCEPT !.position = newPosition,
                       !.finishTime = IF justFinished THEN Some(currentTime)
                                      ELSE hp.finishTime]

\* A calculateNewPosition that takes every unfinished participant at 100 for
\* one that has just finished.
calculateNewPositionStampsAtLine(hp, deltaTime, distance, speedVariation, currentTime) ==
    IF hp.finishTime # Null
    THEN hp
    ELSE LET moveAmount == hp.speed * speedVariation * deltaTime * (BASE_DISTANCE \div 400)
             newPosition == Min(hp.position + moveAmount, Finish(distance))
             justFinished == newPosition >= Finish(distance)
         IN [hp EXCEPT !.position = newPosition,
                       !.finishTime = IF justFinished THEN Some(currentTime)
                                      ELSE hp.finishTime]

\* raceAnimationUtils.calculateNewPosition; the distance multiplier
\* (distance / BASE_DISTANCE) is passed as the distance.
calculateNewPosition(hp, deltaTime, distance, speedVariation, currentTime) ==
    IF hp.finishTime # Null
    THEN hp
    ELSE LET moveAmount == hp.speed * speedVariation * deltaTime * (BASE_DISTANCE \div 400)
             newPosition == Min(hp.position + moveAmount, Finish(distance))
             justFinished == hp.position < Finish(distance)
                             /\ newPosition >= Finish(distance)
         IN [hp EXCEPT !.position = newPosition,
                       !.finishTime = IF justFinished THEN Some(currentTime)
                                      ELSE hp.finishTime]

\* A checkAllFinished that looks at the participant of the first lane only.
checkAllFinishedFirstLane(positions) ==
    Len(positions) > 0 => positions[1].finishTime # Null

\* A checkAllFinished written with some() in place of every().
checkAllFinishedSome(positions) ==
    \E i \in 1..Len(positions) : positions[i].finishTime # Null

\* raceAnimationUtils.checkAllFinished
checkAllFinished(positions) ==
    \A i \in 1..Len(positions) : positions[i].finishTime # Null

\* (hp.finishTime || 0): an absent finishTime, and a finishTime of 0, are 0.
FinishOrZero(hp) == IF hp.finishTime = Null THEN 0 ELSE Val(hp.finishTime)

\* Array.prototype.sort with a numeric comparator is stable: the indices of
\* `keys` in ascending key order, equal keys in index order (insertion sort).
RECURSIVE InsertIndexBeforeEqual(_, _, _)
\* An insertion that puts an entry before the entries of equal key (a sort
\* that is not stable).
InsertIndexBeforeEqual(sorted, i, keys) ==
    IF sorted = <<>> THEN <<i>>
    ELSE IF keys[i] <= keys[Head(sorted)]
         THEN <<i>> \o sorted
         ELSE <<Head(sorted)>> \o InsertIndexBeforeEqual(Tail(sorted), i, keys)

RECURSIVE InsertIndex(_, _, _)
InsertIndex(sorted, i, keys) ==
    IF sorted = <<>> THEN <<i>>
    ELSE IF keys[i] < keys[Head(sorted)]
         THEN <<i>> \o sorted
         ELSE <<Head(sorted)>> \o InsertIndex(Tail(sorted), i, keys)

RECURSIVE SortedIndices(_, _)
SortedIndices(keys, n) ==
    IF n = 0 THEN <<>>
    ELSE InsertIndex(SortedIndices(keys, n - 1), n, keys)

\* raceAnimationUtils.sortByFinishTime
sortByFinishTime(positions) ==
    LET keys == [i \in 1..Len(positions) |-> FinishOrZero(positions[i])]
        order == SortedIndices(keys, Len(positions))
    IN [k \in 1..Len(positions) |-> positions[order[k]]]

\* horses.find((h) => h.id === horseId): Null when no horse has the id.
FindHorse(roster, horseId) ==
    LET hits == {i \in 1..Len(roster) : roster[i].id = horseId}
    IN IF hits = {} THEN Null
       ELSE Some(roster[CHOOSE i \in hits : \A j \in hits : i <= j])

\* A compileRaceResults whose times are the finish timestamps themselves.
compileRaceResultsAbsoluteTimes(positions, roster, animationStartTime, currentTime) ==
    LET sortedPositions == sortByFinishTime(positions)
    IN [index \in 1..Len(sortedPositions) |->
          LET hp == sortedPositions[index]
          IN [horseId |-> hp.horseId,
              position |-> index,
              time |-> IF FinishOrZero(hp) = 0 THEN currentTime ELSE FinishOrZero(hp),
              horse |-> FindHorse(roster, hp.horseId)]]

\* A compileRaceResults that ranks from 0 (position: index).
compileRaceResultsRanksFromZero(positions, roster, animationStartTime, currentTime) ==
    LET sortedPositions == sortByFinishTime(positions)
    IN [index \in 1..Len(sortedPositions) |->
          LET hp == sortedPositions[index]
          IN [horseId |-> hp.horseId,
              position |-> index - 1,
              time |-> (IF FinishOrZero(hp) = 0 THEN currentTime ELSE FinishOrZero(hp))
                       - (IF animationStartTime = Null THEN 0 ELSE Val(animationStartTime)),
              horse |-> FindHorse(roster, hp.horseId)]]

\* raceAnimationUtils.compileRaceResults
compileRaceResults(positions, roster, animationStartTime, currentTime) ==
    LET sortedPositions == sortByFinishTime(positions)
    IN [index \in 1..Len(sortedPositions) |->
          LET hp == sortedPositions[index]
          IN [horseId |-> hp.horseId,
              position |-> index,
              time |-> (IF FinishOrZero(hp) = 0 THEN currentTime ELSE FinishOrZero(hp))
                       - (IF animationStartTime = Null THEN 0 ELSE Val(animationStartTime)),
              horse |-> FindHorse(roster, hp.horseId)]]

\* ------------------------------------------------- roster and schedule
\* horseGenerator.randomInt: Math.floor(Math.random() * (max - min + 1)) + min
randomInt(min, max, r) == (r * (max - min + 1)) \div 10 + min

\* horseGenerator.generateHorseId: `horse_${index + 1}`, as the number index + 1
\* (index is 0-based in the source, 1-based here).
generateHorseId(index) == index

\* Colours drawn from the palette for each horse on its own.
ColorDraws == [1..NumHorses -> 1..NumHorses]

\* The orders [...HORSE_COLORS].sort(() => Math.random() - 0.5) can produce:
\* the comparator is inconsistent, so any permutation of the palette.
ColorShuffles ==
    {p \in [1..NumHorses -> 1..NumHorses] : \A i, j \in 1..NumHorses : i # j => p[i] # p[j]}

\* horseGenerator.generateHorses; conditionDraws[i] is the Math.random() value
\* of horse i, shuffledColors the shuffled palette.
generateHorses(conditionDraws, shuffledColors) ==
    [index \in 1..NumHorses |->
        [id |-> generateHorseId(index),
         name |-> index,
         condition |-> randomInt(1, 100, conditionDraws[index]),
         color |-> shuffledColors[index]]]

\* An exchange that writes the one element and loses the other.
SwapOverwrites(seq, i, j) == [seq EXCEPT ![i] = seq[j]]

\* [shuffled[i], shuffled[j]] = [shuffled[j], shuffled[i]]
Swap(seq, i, j) == [seq EXCEPT ![i] = seq[j], ![j] = seq[i]]

\* scheduleHelpers.shuffleArray (Fisher-Yates); draws[i] is the Math.random()
\* value of the iteration with 0-based index i.
RECURSIVE ShuffleFrom(_, _, _)
ShuffleFrom(shuffled, i, draws) ==
    IF i <= 0 THEN shuffled
    ELSE LET j == (draws[i] * (i + 1)) \div 10
         IN ShuffleFrom(Swap(shuffled, i + 1, j + 1), i - 1, draws)

shuffleArray(array, draws) == ShuffleFrom(array, Len(array) - 1, draws)

\* A selectRandomHorses that draws each participant from the whole roster.
selectRandomHorsesWithRepeats(roster, draws) ==
    [k \in 1..Min(HorsesPerRace, Len(roster)) |->
        roster[(draws[Min(k, Len(draws))] * Len(roster)) \div 10 + 1].id]

\* scheduleHelpers.selectRandomHorses
selectRandomHorses(roster, draws) ==
    LET shuffled == shuffleArray(roster, draws)
    IN [k \in 1..Min(HorsesPerRace, Len(shuffled)) |-> shuffled[k].id]

\* The distances of the rounds of a schedule.
RoundDistances == SubSeq(ROUND_DISTANCES, 1, NumRounds)

\* The Math.random() values one createRaceSchedule call draws: those of one
\* shuffle are all equal, each round has its own.
ScheduleDraws(roster) ==
    [1..NumRounds -> {[i \in 1..(Len(roster) - 1) |-> r] : r \in RandomValues}]

\* scheduleHelpers.createRaceSchedule
createRaceSchedule(roster, draws) ==
    [index \in 1..Len(RoundDistances) |->
        [roundNumber |-> index,
         distance |-> RoundDistances[index],
         horseIds |-> selectRandomHorses(roster, draws[index]),
         status |-> PENDING,
         startTime |-> Null,
         endTime |-> Null]]

\* An initializeHorsePositions that numbers the lanes from 0.
initializeHorsePositionsLanesFromZero(horseIds, roster) ==
    [index \in 1..Len(horseIds) |->
        LET horse == FindHorse(roster, horseIds[index])
            condition == IF horse = Null THEN 50 ELSE Val(horse).condition
        IN [horseId |-> horseIds[index],
            position |-> 0,
            lane |-> index - 1,
            speed |-> calculateHorseSpeed(condition),
            finishTime |-> Null]]

\* raceHelpers.initializeHorsePositions
initializeHorsePositions(horseIds, roster) ==
    [index \in 1..Len(horseIds) |->
        LET horse == FindHorse(roster, horseIds[index])
            condition == IF horse = Null THEN 50 ELSE Val(horse).condition
        IN [horseId |-> horseIds[index],
            position |-> 0,
            lane |-> index,
            speed |-> calculateHorseSpeed(condition),
            finishTime |-> Null]]

\* ------------------------------------------------------------ the store
initialRaceExecution ==
    [currentRace |-> Null, horsePositions |-> <<>>, isAnimating |-> FALSE,
     animationStartTime |-> Null]

initialState ==
    [gameState |-> IDLE, horses |-> <<>>, schedule |-> Null,
     raceExecution |-> initialRaceExecution, results |-> <<>>,
     currentRoundIndex |-> 0]

\* Each store action is a function from the state get() returns (and the
\* action's inputs) to the state after its set() calls.

\* useGameStore.initializeHorses
initializeHorses(s, roster) ==
    [s EXCEPT !.horses = roster, !.gameState = HORSES_READY]

\* Whether generateSchedule, called in state s, passes its guard.
GeneratesSchedule(s) == s.gameState = HORSES_READY \/ s.gameState = COMPLETED

\* generateSchedule without its guard.
generateScheduleUnguarded(s, draws) ==
    [s EXCEPT !.schedule = Some(createRaceSchedule(s.horses, draws)),
              !.gameState = SCHEDULE_READY,
              !.results = <<>>,
              !.currentRoundIndex = 0,
              !.raceExecution = initialRaceExecution]

\* useGameStore.generateSchedule
generateSchedule(s, draws) ==
    IF s.gameState # HORSES_READY /\ s.gameState # COMPLETED
    THEN s
    ELSE [s EXCEPT !.schedule = Some(createRaceSchedule(s.horses, draws)),
                   !.gameState = SCHEDULE_READY,
                   !.results = <<>>,
                   !.currentRoundIndex = 0,
                   !.raceExecution = initialRaceExecution]

\* Whether startNextRace, called in state s, seeds a race (and so creates a
\* new horsePositions array).
SeedsRace(s) ==
    /\ s.schedule # Null
    /\ s.gameState = RACING
    /\ s.currentRoundIndex < Len(Val(s.schedule))

\* A startNextRace that marks the race after the one it seeds as running.
startNextRaceMarksFollowing(s, t) ==
    IF s.schedule = Null \/ s.gameState # RACING
    THEN s
    ELSE IF s.currentRoundIndex >= Len(Val(s.schedule))
    THEN [s EXCEPT !.gameState = COMPLETED]
    ELSE LET sched == Val(s.schedule)
             currentRace == sched[s.currentRoundIndex + 1]
             horsePositions == initializeHorsePositions(currentRace.horseIds, s.horses)
             updatedSchedule ==
                 [index \in 1..Len(sched) |->
                     IF index = s.currentRoundIndex + 2
                     THEN [sched[index] EXCEPT !.status = RUNNING, !.startTime = Some(t)]
                     ELSE sched[index]]
         IN [s EXCEPT !.schedule = Some(updatedSchedule),
                      !.raceExecution =
                          [currentRace |-> Some([currentRace EXCEPT !.status = RUNNING]),
                           horsePositions |-> horsePositions,
                           isAnimating |-> TRUE,
                           animationStartTime |-> Some(t)]]

\* useGameStore.startNextRace; t is Date.now().
startNextRace(s, t) ==
    IF s.schedule = Null \/ s.gameState # RACING
    THEN s
    ELSE IF s.currentRoundIndex >= Len(Val(s.schedule))
    THEN [s EXCEPT !.gameState = COMPLETED]
    ELSE LET sched == Val(s.schedule)
             currentRace == sched[s.currentRoundIndex + 1]
             horsePositions == initializeHorsePositions(currentRace.horseIds, s.horses)
             updatedSchedule ==
                 [index \in 1..Len(sched) |->
                     IF index = s.currentRoundIndex + 1
                     THEN [sched[index] EXCEPT !.status = RUNNING, !.startTime = Some(t)]
                     ELSE sched[index]]
         IN [s EXCEPT !.schedule = Some(updatedSchedule),
                      !.raceExecution =
                          [currentRace |-> Some([currentRace EXCEPT !.status = RUNNING]),
                           horsePositions |-> horsePositions,
                           isAnimating |-> TRUE,
                           animationStartTime |-> Some(t)]]

\* startRacing without its guard.
startRacingUnguarded(s, t) == startNextRace([s EXCEPT !.gameState = RACING], t)

\* A startRacing that always starts from the first race of the schedule.
startRacingFromFirstRace(s, t) ==
    IF s.gameState # SCHEDULE_READY
    THEN s
    ELSE startNextRace([s EXCEPT !.gameState = RACING, !.currentRoundIndex = 0], t)

\* useGameStore.startRacing
startRacing(s, t) ==
    IF s.gameState # SCHEDULE_READY
    THEN s
    ELSE startNextRace([s EXCEPT !.gameState = RACING], t)

\* Whether startRacing, called in state s, seeds a race.
StartRacingSeeds(s) ==
    s.gameState = SCHEDULE_READY /\ SeedsRace([s EXCEPT !.gameState = RACING])

\* pauseRacing without its guard.
pauseRacingUnguarded(s) ==
    [s EXCEPT !.gameState = PAUSED, !.raceExecution.isAnimating = FALSE]

\* useGameStore.pauseRacing
pauseRacing(s) ==
    IF s.gameState # RACING
    THEN s
    ELSE [s EXCEPT !.gameState = PAUSED, !.raceExecution.isAnimating = FALSE]

\* useGameStore.resumeRacing
resumeRacing(s) ==
    IF s.gameState # PAUSED
    THEN s
    ELSE [s EXCEPT !.gameState = RACING, !.raceExecution.isAnimating = TRUE]

\* raceResults.sort((a, b) => a.position - b.position)
sortByPosition(raceResults) ==
    LET keys == [i \in 1..Len(raceResults) |-> raceResults[i].position]
        order == SortedIndices(keys, Len(raceResults))
    IN [k \in 1..Len(raceResults) |-> raceResults[order[k]]]

\* Whether completeCurrentRace, called in state s, passes its guard.
CompletesRace(s) == s.schedule # Null /\ s.raceExecution.currentRace # Null

\* Whether completeCurrentRace, called in state s, schedules the deferred
\* startNextRace (setTimeout, INTER_RACE_DELAY).
SchedulesNextRace(s) ==
    CompletesRace(s) /\ s.currentRoundIndex + 1 < Len(Val(s.schedule))

\* A completeCurrentRace that records the result and moves to the next round
\* but leaves the race's status in the schedule as it was.
completeCurrentRaceLeavesRunning(s, raceResults, t) ==
    IF ~CompletesRace(s)
    THEN s
    ELSE LET sched == Val(s.schedule)
             currentRace == sched[s.currentRoundIndex + 1]
             raceResult == [roundNumber |-> currentRace.roundNumber,
                            distance |-> currentRace.distance,
                            results |-> sortByPosition(raceResults),
                            completedAt |-> t]
             nextRoundIndex == s.currentRoundIndex + 1
             allRacesCompleted == nextRoundIndex >= Len(sched)
         IN [s EXCEPT !.results = Append(s.results, raceResult),
                      !.currentRoundIndex = nextRoundIndex,
                      !.raceExecution = initialRaceExecution,
                      !.gameState = IF allRacesCompleted THEN COMPLETED ELSE RACING]

\* A completeCurrentRace that keeps the new result only
\* (results: [raceResult]).
completeCurrentRaceDropsEarlier(s, raceResults, t) ==
    IF ~CompletesRace(s)
    THEN s
    ELSE LET sched == Val(s.schedule)
             currentRace == sched[s.currentRoundIndex + 1]
             raceResult == [roundNumber |-> currentRace.roundNumber,
                            distance |-> currentRace.distance,
                            results |-> sortByPosition(raceResults),
                            completedAt |-> t]
             updatedSchedule ==
                 [index \in 1..Len(sched) |->
                     IF index = s.currentRoundIndex + 1
                     THEN [sched[index] EXCEPT !.status = RACE_COMPLETED,
                                               !.endTime = Some(t)]
                     ELSE sched[index]]
             nextRoundIndex == s.currentRoundIndex + 1
             allRacesCompleted == nextRoundIndex >= Len(sched)
         IN [s EXCEPT !.schedule = Some(updatedSchedule),
                      !.results = <<raceResult>>,
                      !.currentRoundIndex = nextRoundIndex,
                      !.raceExecution = initialRaceExecution,
                      !.gameState = IF allRacesCompleted THEN COMPLETED ELSE RACING]

\* useGameStore.completeCurrentRace, without its setTimeout; t is Date.now().
completeCurrentRace(s, raceResults, t) ==
    IF ~CompletesRace(s)
    THEN s
    ELSE LET sched == Val(s.schedule)
             currentRace == sched[s.currentRoundIndex + 1]
             raceResult == [roundNumber |-> currentRace.roundNumber,
                            distance |-> currentRace.distance,
                            results |-> sortByPosition(raceResults),
                            completedAt |-> t]
             updatedSchedule ==
                 [index \in 1..Len(sched) |->
                     IF index = s.currentRoundIndex + 1
                     THEN [sched[index] EXCEPT !.status = RACE_COMPLETED,
                                               !.endTime = Some(t)]
                     ELSE sched[index]]
             nextRoundIndex == s.currentRoundIndex + 1
             allRacesCompleted == nextRoundIndex >= Len(sched)
         IN [s EXCEPT !.schedule = Some(updatedSchedule),
                      !.results = Append(s.results, raceResult),
                      !.currentRoundIndex = nextRoundIndex,
                      !.raceExecution = initialRaceExecution,
                      !.gameState = IF allRacesCompleted THEN COMPLETED ELSE RACING]

\* A resetGame that keeps the roster.
resetGameKeepsRoster(s) == [initialState EXCEPT !.horses = s.horses]

\* useGameStore.resetGame
resetGame(s) == initialState

\* ------------------------------------------------------- persistence
\* A partialize that leaves the results out of what is stored.
partializeWithoutResults(s) ==
    [gameState |-> s.gameState, horses |-> s.horses, schedule |-> s.schedule,
     results |-> <<>>, currentRoundIndex |-> s.currentRoundIndex]

\* persist's partialize: the part of the state that is stored.
partialize(s) ==
    [gameState |-> s.gameState, horses |-> s.horses, schedule |-> s.schedule,
     results |-> s.results, currentRoundIndex |-> s.currentRoundIndex]

\* JSON.stringify of a Race: a property whose value is undefined is left out.
StringifyRace(race) ==
    LET base == [roundNumber |-> race.roundNumber, distance |-> race.distance,
                 horseIds |-> race.horseIds, status |-> race.status]
        started == IF race.startTime = Null THEN base
                   ELSE ("startTime" :> Val(race.startTime)) @@ base
    IN IF race.endTime = Null THEN started
       ELSE ("endTime" :> Val(race.endTime)) @@ started

\* JSON.parse of a Race: a property that is not there reads as undefined.
ParseRace(json) ==
    [roundNumber |-> json.roundNumber, distance |-> json.distance,
     horseIds |-> json.horseIds, status |-> json.status,
     startTime |-> IF "startTime" \in DOMAIN json THEN Some(json.startTime) ELSE Null,
     endTime |-> IF "endTime" \in DOMAIN json THEN Some(json.endTime) ELSE Null]

\* JSON.stringify of a RaceResultEntry.
StringifyEntry(entry) ==
    LET base == [horseId |-> entry.horseId, position |-> entry.position,
                 time |-> entry.time]
    IN IF entry.horse = Null THEN base ELSE ("horse" :> Val(entry.horse)) @@ base

\* JSON.parse of a RaceResultEntry.
ParseEntry(json) ==
    [horseId |-> json.horseId, position |-> json.position, time |-> json.time,
     horse |-> IF "horse" \in DOMAIN json THEN Some(json.horse) ELSE Null]

\* JSON.stringify of the partialized state (createJSONStorage.setItem).
Stringify(part) ==
    [gameState |-> part.gameState,
     horses |-> part.horses,
     schedule |-> IF part.schedule = Null THEN Null
                  ELSE Some([i \in 1..Len(Val(part.schedule)) |->
                                StringifyRace(Val(part.schedule)[i])]),
     results |-> [i \in 1..Len(part.results) |->
                    [roundNumber |-> part.results[i].roundNumber,
                     distance |-> part.results[i].distance,
                     results |-> [k \in 1..Len(part.results[i].results) |->
                                    StringifyEntry(part.results[i].results[k])],
                     completedAt |-> part.results[i].completedAt]],
     currentRoundIndex |-> part.currentRoundIndex]

\* JSON.parse of the stored record (createJSONStorage.getItem).
Parse(json) ==
    [gameState |-> json.gameState,
     horses |-> json.horses,
     schedule |-> IF json.schedule = Null THEN Null
                  ELSE Some([i \in 1..Len(Val(json.schedule)) |->
                                ParseRace(Val(json.schedule)[i])]),
     results |-> [i \in 1..Len(json.results) |->
                    [roundNumber |-> json.results[i].roundNumber,
                     distance |-> json.results[i].distance,
                     results |-> [k \in 1..Len(json.results[i].results) |->
                                    ParseEntry(json.results[i].results[k])],
                     completedAt |-> json.results[i].completedAt]],
     currentRoundIndex |-> json.currentRoundIndex]

\* A merge that does not take the stored currentRoundIndex.
mergeWithoutRoundIndex(persisted, current) ==
    [current EXCEPT !.gameState = persisted.gameState,
                    !.horses = persisted.horses,
                    !.schedule = persisted.schedule,
                    !.results = persisted.results]

\* persist's default merge: the stored fields over the store's current state.
merge(persisted, current) ==
    [current EXCEPT !.gameState = persisted.gameState,
                    !.horses = persisted.horses,
                    !.schedule = persisted.schedule,
                    !.results = persisted.results,
                    !.currentRoundIndex = persisted.currentRoundIndex]

\* An onRehydrateStorage that normalises RACING only.
onRehydrateStorageRacingOnly(s) ==
    IF s.gameState = RACING
    THEN [s EXCEPT !.gameState = SCHEDULE_READY]
    ELSE s

\* The persist config's onRehydrateStorage callback, which assigns to the
\* state object the store has just been set to.
onRehydrateStorage(s) ==
    IF s.gameState = RACING \/ s.gameState = PAUSED
    THEN [s EXCEPT !.gameState = SCHEDULE_READY]
    ELSE s

\* persist's hydrate at store creation: the store's state after it, given
\* what localStorage holds.
hydrate(stored) ==
    IF stored = Null THEN initialState
    ELSE onRehydrateStorage(merge(Parse(Val(stored)), initialState))

\* persist's set: every set() of the store writes the partialized state.  An
\* action that returns at its guard calls no set().
PersistedAfter(s2) ==
    IF s2 = State THEN storage ELSE Some(Stringify(partialize(s2)))

\* ------------------------------------------------------------ the hooks
\* useRefBasedRaceAnimation: shouldAnimate, which is also the isActive
\* argument of useAnimationFrame.
shouldAnimate(s) == s.raceExecution.isAnimating /\ s.gameState = RACING

\* useRefBasedRaceAnimation, the effect that initialises positionsRef: it runs
\* when one of its dependencies (horsePositions, animationStartTime,
\* isAnimating) changed, and copies when there are positions and isAnimating.
\* freshPositions: the action built a new horsePositions array (a new array is
\* a changed dependency even when its contents are equal).
InitPositionsRuns(old, new, freshPositions) ==
    /\ \/ freshPositions
       \/ new.horsePositions # old.horsePositions
       \/ new.animationStartTime # old.animationStartTime
       \/ new.isAnimating # old.isAnimating
    /\ Len(new.horsePositions) > 0
    /\ new.isAnimating

\* What a frame callback (useRefBasedRaceAnimation.animate) captures from the
\* render that created it.
AnimateClosure(s) ==
    [shouldAnimate |-> shouldAnimate(s),
     currentRace |-> s.raceExecution.currentRace,
     horses |-> s.horses]

\* A useAnimationFrame effect whose clean-up leaves the pending request alone.
FrameRequestNotCancelled(s2, pending) ==
    IF shouldAnimate(s2) THEN Some(AnimateClosure(s2)) ELSE pending

\* useAnimationFrame's effect in the commit of state s2: its clean-up cancels
\* the pending frame request, and it requests a frame when isActive.
FrameRequest(s2, pending) ==
    IF shouldAnimate(s2) THEN Some(AnimateClosure(s2)) ELSE Null

\* raceExecution.animationStartTime || Date.now()
StartTimeOrNow(re, t) ==
    IF re.animationStartTime = Null \/ Val(re.animationStartTime) = 0
    THEN t
    ELSE Val(re.animationStartTime)

\* A store update and the commit it causes: the store becomes s2, the
\* position-initialising effect runs if its dependencies changed, and
\* useAnimationFrame's effect cancels or renews the frame request and forgets
\* the previous frame time when the loop is not active.  positions and
\* previous are the values the refs have when the commit starts, t is
\* Date.now().
Commit(s2, freshPositions, positions, previous, t) ==
    /\ gameState' = s2.gameState
    /\ horses' = s2.horses
    /\ schedule' = s2.schedule
    /\ raceExecution' = s2.raceExecution
    /\ results' = s2.results
    /\ currentRoundIndex' = s2.currentRoundIndex
    /\ IF InitPositionsRuns(raceExecution, s2.raceExecution, freshPositions)
       THEN /\ positionsRef' = s2.raceExecution.horsePositions
            /\ animationStartTimeRef' = StartTimeOrNow(s2.raceExecution, t)
       ELSE /\ positionsRef' = positions
            /\ animationStartTimeRef' = animationStartTimeRef
    /\ previousTimeRef' = IF shouldAnimate(s2) THEN previous ELSE Null
    /\ requestRef' = FrameRequest(s2, requestRef)
    /\ storage' = PersistedAfter(s2)

\* ------------------------------------------------- calls of store actions
\* What one generateHorses call draws in a game: Math.random() values for the
\* conditions that alternate from horse to horse, with the palette as listed
\* when the first horse draws low and reversed when it draws high.
RosterDraws ==
    {[conditions |-> [i \in 1..NumHorses |-> IF i % 2 = 1 THEN r ELSE 9 - r],
      colors |-> [i \in 1..NumHorses |-> IF r = 0 THEN i ELSE NumHorses + 1 - i]] :
        r \in RandomValues}

InitializeHorsesCall ==
    /\ \E d \in RosterDraws :
          Commit(initializeHorses(State, generateHorses(d.conditions, d.colors)),
                 FALSE, positionsRef, previousTimeRef, now)
    /\ lastCall' = Called("initializeHorses")
    /\ UNCHANGED <<timers, now, staleTimers>>

GenerateScheduleCall ==
    /\ \E draws \in ScheduleDraws(horses) :
          Commit(generateSchedule(State, draws), FALSE, positionsRef, previousTimeRef, now)
    /\ staleTimers' = IF GeneratesSchedule(State) THEN timers ELSE staleTimers
    /\ lastCall' = Called("generateSchedule")
    /\ UNCHANGED <<timers, now>>

StartRacingCall ==
    /\ Commit(startRacing(State, now), StartRacingSeeds(State),
              positionsRef, previousTimeRef, now)
    /\ lastCall' = Called("startRacing")
    /\ UNCHANGED <<timers, now, staleTimers>>

PauseRacingCall ==
    /\ Commit(pauseRacing(State), FALSE, positionsRef, previousTimeRef, now)
    /\ lastCall' = Called("pauseRacing")
    /\ UNCHANGED <<timers, now, staleTimers>>

ResumeRacingCall ==
    /\ Commit(resumeRacing(State), FALSE, positionsRef, previousTimeRef, now)
    /\ lastCall' = Called("resumeRacing")
    /\ UNCHANGED <<timers, now, staleTimers>>

StartNextRaceCall ==
    /\ Commit(startNextRace(State, now), SeedsRace(State),
              positionsRef, previousTimeRef, now)
    /\ lastCall' = Called("startNextRace")
    /\ UNCHANGED <<timers, now, staleTimers>>

\* completeCurrentRace with its setTimeout: called with raceResults at time t,
\* the refs holding positions and previous.
CompleteWith(raceResults, positions, previous, t) ==
    /\ SchedulesNextRace(State) => timers < MaxTimers
    /\ timers' = IF SchedulesNextRace(State) THEN timers + 1 ELSE timers
    /\ Commit(completeCurrentRace(State, raceResults, t), FALSE, positions, previous, t)
    /\ UNCHANGED staleTimers

\* A caller other than the animation hook: it reports the ranking of the
\* positions the hook holds.
CompleteCurrentRaceCall ==
    /\ CompleteWith(compileRaceResults(positionsRef, horses,
                                       Some(animationStartTimeRef), now),
                    positionsRef, previousTimeRef, now)
    /\ lastCall' = Called("completeCurrentRace")
    /\ UNCHANGED now

ResetGameCall ==
    /\ Commit(resetGame(State), FALSE, positionsRef, previousTimeRef, now)
    /\ staleTimers' = timers
    /\ lastCall' = Called("resetGame")
    /\ UNCHANGED <<timers, now>>

\* ------------------------------------------------------- the frame clock
\* An animate that reads Date.now() for each participant, the clock having
\* advanced by a millisecond from one to the next.
FrameTimePerParticipant(t, i) == t + i - 1

\* useRefBasedRaceAnimation.animate, `const now = Date.now()`: the currentTime
\* passed for participant i is the one snapshot t taken before the loop,
\* however far the clock has advanced when participant i is reached.
FrameTime(t, i) == t

\* useRefBasedRaceAnimation.animate as captured in closure c, called with
\* deltaTime at time t; draws[i] is the Math.random() value of participant i's
\* speed variation.
Animate(c, deltaTime, draws, t) ==
    IF ~c.shouldAnimate \/ c.currentRace = Null \/ Len(positionsRef) = 0
    THEN /\ previousTimeRef' = Some(t)
         /\ UNCHANGED <<storeVars, positionsRef, animationStartTimeRef, requestRef,
                        timers, storage, staleTimers>>
    ELSE LET distance == Val(c.currentRace).distance
             newPositions ==
                 [i \in 1..Len(positionsRef) |->
                     calculateNewPosition(positionsRef[i], deltaTime, distance,
                                          generateSpeedVariation(draws[i]),
                                          FrameTime(t, i))]
         IN IF checkAllFinished(newPositions)
            THEN CompleteWith(compileRaceResults(newPositions, c.horses,
                                                 Some(animationStartTimeRef), t),
                              newPositions, Some(t), t)
            ELSE /\ positionsRef' = newPositions
                 /\ previousTimeRef' = Some(t)
                 /\ UNCHANGED <<storeVars, animationStartTimeRef, requestRef,
                                timers, storage, staleTimers>>

\* A frame clock that passes the time since the previous frame as it is.
CapDeltaTimeNoCap(deltaTime) == deltaTime

\* useAnimationFrame.animate: Math.min(deltaTime, 100), the cap being
\* MaxDeltaTime here.
CapDeltaTime(deltaTime) == Min(deltaTime, MaxDeltaTime)

\* useAnimationFrame.animate: the pending frame request is served, and the
\* next one requested.  The first frame of a loop only records its time.
\* The clock stops at `limit`.
FrameUntil(limit) ==
    /\ requestRef # Null
    /\ lastCall' = Called("frame")
    /\ \E gap \in FrameGaps :
          /\ now + gap <= limit
          /\ now' = now + gap
          /\ IF previousTimeRef = Null
             THEN /\ previousTimeRef' = Some(now + gap)
                  /\ UNCHANGED <<storeVars, positionsRef, animationStartTimeRef,
                                 requestRef, timers, storage, staleTimers>>
             ELSE LET deltaTime == now + gap - Val(previousTimeRef)
                      cappedDeltaTime == CapDeltaTime(deltaTime)
                  IN \E draws \in [1..Len(positionsRef) -> RandomValues] :
                        Animate(Val(requestRef), cappedDeltaTime, draws, now + gap)

\* The frame clock of the application.
Frame == FrameUntil(MaxTime)

\* The frame clock of a game that is left to run.
RunFrame == FrameUntil(MaxRunTime)

\* The deferred callback of completeCurrentRace's setTimeout fires: one
\* scheduled before the latest resetGame or schedule generation (stale), or
\* one scheduled after it.
TimerFires ==
    /\ timers > 0
    /\ timers' = timers - 1
    /\ \E stale \in BOOLEAN :
          IF stale
          THEN /\ staleTimers > 0
               /\ staleTimers' = staleTimers - 1
               /\ lastCall' = Called("staleTimerFires")
          ELSE /\ timers > staleTimers
               /\ staleTimers' = staleTimers
               /\ lastCall' = Called("timerFires")
    /\ Commit(startNextRace(State, now), SeedsRace(State),
              positionsRef, previousTimeRef, now)
    /\ UNCHANGED now

\* The page is loaded again: the store is created anew and hydrated from
\* localStorage, the hooks mount with fresh refs, and the callbacks and frame
\* requests of the page that was left are gone.
Reload ==
    /\ LET s2 == hydrate(storage)
       IN /\ gameState' = s2.gameState
          /\ horses' = s2.horses
          /\ schedule' = s2.schedule
          /\ raceExecution' = s2.raceExecution
          /\ results' = s2.results
          /\ currentRoundIndex' = s2.currentRoundIndex
    /\ positionsRef' = <<>>
    /\ animationStartTimeRef' = 0
    /\ previousTimeRef' = Null
    /\ requestRef' = Null
    /\ timers' = 0
    /\ staleTimers' = 0
    /\ lastCall' = Called("reload")
    /\ UNCHANGED <<storage, now>>

\* Records under the store's localStorage key that are valid JSON of the
\* stored shape but describe no state of the game: SCHEDULE_READY without a
\* schedule, a roster with a horse missing, and a schedule whose first race
\* has a participant that is not in the roster.
MalformedRecords ==
    UNION {LET roster == generateHorses(d.conditions, d.colors)
               races == createRaceSchedule(roster,
                            [n \in 1..NumRounds |-> [i \in 1..(NumHorses - 1) |-> 0]])
               missing == races[1].horseIds[1]
           IN {Stringify([gameState |-> SCHEDULE_READY, horses |-> roster,
                          schedule |-> Null, results |-> <<>>,
                          currentRoundIndex |-> 0]),
               Stringify([gameState |-> HORSES_READY,
                          horses |-> SubSeq(roster, 1, NumHorses - 1),
                          schedule |-> Null, results |-> <<>>,
                          currentRoundIndex |-> 0]),
               Stringify([gameState |-> SCHEDULE_READY,
                          horses |-> SelectSeq(roster, LAMBDA h : h.id # missing),
                          schedule |-> Some(races), results |-> <<>>,
                          currentRoundIndex |-> 0])} : d \in RosterDraws}

\* localStorage has been written from outside the store (by another version
\* of the application under the same key, or with the browser's tools) before
\* the store writes its first record: the record under the store's key is a
\* malformed one.
StorageEdited ==
    /\ storage = Null
    /\ \E record \in MalformedRecords : storage' = Some(record)
    /\ lastCall' = Called("storageEdited")
    /\ UNCHANGED <<storeVars, hookVars, timers, now, staleTimers>>

\* ------------------------------------------- the pure functions on their own
\* The participant states calculateNewPosition and checkAllFinished are given,
\* for the participant in lane `index` of a race over `distance`: at the
\* start, half way, just before the line and on it, without a finishTime and
\* with one (the time of the first call: every finishTime is a Date.now()
\* value, which is never 0), whether or not the two agree.
ParticipantStates(index, distance) ==
    {[horseId |-> index, position |-> position, lane |-> index,
      speed |-> calculateHorseSpeed(randomInt(1, 100, IF index % 2 = 1 THEN 0 ELSE 9)),
      finishTime |-> finishTime] :
        position \in {0, Finish(distance) \div 2, Finish(distance) - 1, Finish(distance)},
        finishTime \in {Null, Some(1)}}

\* The lists of up to HorsesPerRace participant states.
PositionLists(distance) ==
    UNION {{list \in [1..n -> UNION {ParticipantStates(index, distance) : index \in 1..n}] :
               \A index \in 1..n : list[index] \in ParticipantStates(index, distance)} :
           n \in 0..HorsesPerRace}

\* The distanceMultiplier argument, as the distance of the race it is
\* computed from.
CallDistance == Val(raceExecution.currentRace).distance

\* The functions are called on their own: the list they are applied to is in
\* positionsRef, the race whose distance is used in raceExecution.currentRace,
\* the animationStartTime in animationStartTimeRef, and `now` counts the calls
\* of calculateNewPosition and is the currentTime of the next call.
PureInit ==
    /\ gameState = initialState.gameState
    /\ horses = initialState.horses
    /\ schedule = initialState.schedule
    /\ results = initialState.results
    /\ currentRoundIndex = initialState.currentRoundIndex
    /\ \E index \in 1..Len(RoundDistances) :
          /\ raceExecution =
                [initialRaceExecution EXCEPT
                    !.currentRace = Some([roundNumber |-> index,
                                          distance |-> RoundDistances[index],
                                          horseIds |-> <<>>,
                                          status |-> RUNNING,
                                          startTime |-> Null,
                                          endTime |-> Null])]
          /\ positionsRef \in PositionLists(RoundDistances[index])
    /\ animationStartTimeRef \in {0, 1}
    /\ previousTimeRef = Null
    /\ requestRef = Null
    /\ timers = 0
    /\ storage = Null
    /\ now = 1
    /\ staleTimers = 0
    /\ lastCall = [name |-> "inputs", from |-> IDLE]

\* calculateNewPosition is applied to every entry of the list, with a
\* deltaTime of zero or of a whole capped frame, one speed variation and
\* currentTime `now`.
CalculateNewPositionCall ==
    /\ now <= MaxCalls
    /\ \E deltaTime \in {0, MaxDeltaTime}, r \in RandomValues :
          /\ positionsRef' =
                [i \in 1..Len(positionsRef) |->
                    calculateNewPosition(positionsRef[i], deltaTime, CallDistance,
                                         generateSpeedVariation(r), now)]
          /\ lastCall' = [name |-> "calculateNewPosition", from |-> gameState,
                          deltaTime |-> deltaTime,
                          speedVariation |-> generateSpeedVariation(r),
                          currentTime |-> now]
    /\ now' = now + 1
    /\ UNCHANGED <<storeVars, animationStartTimeRef, previousTimeRef, requestRef,
                   timers, storage, staleTimers>>

\* checkAllFinished is applied to the list; what it returns is kept in lastCall.
CheckAllFinishedCall ==
    /\ lastCall' = [name |-> "checkAllFinished", from |-> gameState,
                    returned |-> checkAllFinished(positionsRef)]
    /\ UNCHANGED <<storeVars, hookVars, timers, storage, now, staleTimers>>

\* sortByFinishTime sorts a copy ([...positions]): the array it was given,
\* as it is after the call.
PositionsAfterSort(positions) == positions

\* compileRaceResults is applied to the list, with the animationStartTime and
\* currentTime `now`; what it returns is kept in lastCall.
CompileRaceResultsCall ==
    /\ lastCall' = [name |-> "compileRaceResults", from |-> gameState,
                    currentTime |-> now,
                    returned |-> compileRaceResults(positionsRef, horses,
                                                    Some(animationStartTimeRef), now)]
    /\ positionsRef' = PositionsAfterSort(positionsRef)
    /\ UNCHANGED <<storeVars, animationStartTimeRef, previousTimeRef, requestRef,
                   timers, storage, now, staleTimers>>

\* ------------------------------------------- the helpers on their own
\* The conditions calculateHorseSpeed is called with.
Conditions == 0..100

\* The store and the hooks as they are at start, while a helper is called on
\* its own with the arguments held in lastCall.
HelperInit(arguments) ==
    /\ gameState = initialState.gameState
    /\ horses = initialState.horses
    /\ schedule = initialState.schedule
    /\ raceExecution = initialState.raceExecution
    /\ results = initialState.results
    /\ currentRoundIndex = initialState.currentRoundIndex
    /\ positionsRef = <<>>
    /\ animationStartTimeRef = 0
    /\ previousTimeRef = Null
    /\ requestRef = Null
    /\ timers = 0
    /\ storage = Null
    /\ now = 1
    /\ staleTimers = 0
    /\ lastCall = arguments

\* The arrays shuffleArray is called with: of every length up to
\* MaxArrayLen, of distinct elements or with the first element repeated at
\* the end.
ShuffleInputs ==
    {[i \in 1..n |-> IF repeated /\ i = n THEN 1 ELSE i] :
        n \in 0..MaxArrayLen, repeated \in BOOLEAN}

\* The Math.random() values of a shuffle, in tenths: with them
\* Math.floor(Math.random() * (i + 1)) takes every value of 0..i for i < 4.
ShuffleDraws == {0, 4, 5, 9}

\* const shuffled = [...array]: the array shuffleArray was given, as it is
\* after the call.
ArrayAfterShuffle(array) == array

\* The arguments the helpers are called with: two conditions for
\* calculateHorseSpeed, the Math.random() values and the shuffled palette of
\* generateHorses, a roster and the Math.random() values of every shuffle for
\* createRaceSchedule, an array and the Math.random() values for shuffleArray.
HelpersInit ==
    \/ \E c, d \in Conditions :
          HelperInit([name |-> "arguments", from |-> IDLE,
                      of |-> "calculateHorseSpeed", conditions |-> <<c, d>>])
    \/ \E conditionDraws \in [1..NumHorses -> RandomValues],
           shuffledColors \in ColorShuffles :
          HelperInit([name |-> "arguments", from |-> IDLE,
                      of |-> "generateHorses", conditionDraws |-> conditionDraws,
                      shuffledColors |-> shuffledColors])
    \/ \E d \in RosterDraws,
           draws \in [1..NumRounds -> [1..(NumHorses - 1) -> RandomValues]] :
          HelperInit([name |-> "arguments", from |-> IDLE,
                      of |-> "createRaceSchedule",
                      roster |-> generateHorses(d.conditions, d.colors),
                      draws |-> draws])
    \/ \E array \in ShuffleInputs,
           draws \in [1..(MaxArrayLen - 1) -> ShuffleDraws] :
          HelperInit([name |-> "arguments", from |-> IDLE,
                      of |-> "shuffleArray", array |-> array, draws |-> draws])

\* shuffleArray is called; the array it was given, as it is after the call
\* (the function works on the copy [...array]), and what it returns are kept
\* in lastCall.
ShuffleArrayCall ==
    /\ lastCall.name = "arguments"
    /\ lastCall.of = "shuffleArray"
    /\ lastCall' = [name |-> "shuffleArray", from |-> gameState,
                    given |-> lastCall.array,
                    array |-> ArrayAfterShuffle(lastCall.array),
                    returned |-> shuffleArray(lastCall.array, lastCall.draws)]
    /\ UNCHANGED <<storeVars, hookVars, timers, storage, now, staleTimers>>

\* calculateHorseSpeed is called with each of the two conditions; what it
\* returns is kept in lastCall.
CalculateHorseSpeedCall ==
    /\ lastCall.name = "arguments"
    /\ lastCall.of = "calculateHorseSpeed"
    /\ lastCall' = [name |-> "calculateHorseSpeed", from |-> gameState,
                    conditions |-> lastCall.conditions,
                    returned |-> <<calculateHorseSpeed(lastCall.conditions[1]),
                                   calculateHorseSpeed(lastCall.conditions[2])>>]
    /\ UNCHANGED <<storeVars, hookVars, timers, storage, now, staleTimers>>

\* generateHorses is called; what it returns is kept in lastCall.
GenerateHorsesCall ==
    /\ lastCall.name = "arguments"
    /\ lastCall.of = "generateHorses"
    /\ lastCall' = [name |-> "generateHorses", from |-> gameState,
                    returned |-> generateHorses(lastCall.conditionDraws,
                                                lastCall.shuffledColors)]
    /\ UNCHANGED <<storeVars, hookVars, timers, storage, now, staleTimers>>

\* createRaceSchedule is called with the roster; what it returns is kept in
\* lastCall.
CreateRaceScheduleCall ==
    /\ lastCall.name = "arguments"
    /\ lastCall.of = "createRaceSchedule"
    /\ lastCall' = [name |-> "createRaceSchedule", from |-> gameState,
                    roster |-> lastCall.roster,
                    returned |-> createRaceSchedule(lastCall.roster, lastCall.draws)]
    /\ UNCHANGED <<storeVars, hookVars, timers, storage, now, staleTimers>>

\* ------------------------------------------------------------- the app
\* App: useEffect(() => { if (gameState === IDLE) initializeHorses() })
AppInitializes == gameState = IDLE /\ InitializeHorsesCall

\* selectors.selectCanGenerateSchedule
selectCanGenerateSchedule(s) == s.gameState = HORSES_READY \/ s.gameState = COMPLETED

\* GameControls: every button is disabled while loading (isInitializing).
isInitializing == gameState = IDLE

\* A Button that stays enabled while loading.
ButtonDisabledIgnoringLoading(disabled, loading) == disabled

\* Button: disabled={disabled || loading}
ButtonDisabled(disabled, loading) == disabled \/ loading

\* GameControls: the Generate Program button,
\* disabled={!canGenerateSchedule} loading={isInitializing}.
isGenerateProgramDisabled ==
    ButtonDisabled(~selectCanGenerateSchedule(State), isInitializing)

\* GameControls.handleGenerateProgram, behind its button.
HandleGenerateProgram ==
    /\ ~isGenerateProgramDisabled /\ selectCanGenerateSchedule(State)
    /\ GenerateScheduleCall

\* GameControls.isStartPauseDisabled
isStartPauseDisabled ==
    gameState = IDLE \/ gameState = HORSES_READY \/ gameState = COMPLETED

\* GameControls: the Start/Pause/Resume button,
\* disabled={isStartPauseDisabled} loading={isInitializing}.
isStartPauseButtonDisabled == ButtonDisabled(isStartPauseDisabled, isInitializing)

\* GameControls.handleStartPause, behind its button.
HandleStartPause ==
    /\ ~isStartPauseButtonDisabled
    /\ IF gameState = SCHEDULE_READY THEN StartRacingCall
       ELSE IF gameState = RACING THEN PauseRacingCall
       ELSE IF gameState = PAUSED THEN ResumeRacingCall
       ELSE UNCHANGED vars

\* GameControls: the Reset button, disabled={isRacing} loading={isInitializing}.
isResetDisabled == ButtonDisabled(gameState = RACING, isInitializing)

\* GameControls.handleResetGame, behind its button.
HandleResetGame ==
    /\ ~isResetDisabled
    /\ ResetGameCall

\* ------------------------------------------------------- specifications
Init ==
    /\ gameState = initialState.gameState
    /\ horses = initialState.horses
    /\ schedule = initialState.schedule
    /\ raceExecution = initialState.raceExecution
    /\ results = initialState.results
    /\ currentRoundIndex = initialState.currentRoundIndex
    /\ positionsRef = <<>>
    /\ animationStartTimeRef = 0
    /\ previousTimeRef = Null
    /\ requestRef = Null
    /\ timers = 0
    /\ storage = Null
    /\ now = 1
    /\ staleTimers = 0
    /\ lastCall = [name |-> "createRoot", from |-> IDLE]

\* The application: the store driven by the App effect, the controls, the
\* frame clock, the deferred callbacks and reloads of the page.
Next ==
    \/ AppInitializes
    \/ HandleGenerateProgram
    \/ HandleStartPause
    \/ HandleResetGame
    \/ Frame
    \/ TimerFires
    \/ Reload

Spec == Init /\ [][Next]_vars

\* The store driven by any caller: every action may be invoked in every state,
\* and the deferred callbacks fire.
NextStore ==
    \/ InitializeHorsesCall
    \/ GenerateScheduleCall
    \/ StartRacingCall
    \/ PauseRacingCall
    \/ ResumeRacingCall
    \/ StartNextRaceCall
    \/ CompleteCurrentRaceCall
    \/ ResetGameCall
    \/ TimerFires
    \/ Reload

SpecStore == Init /\ [][NextStore]_vars

\* The store driven by any caller, with a localStorage that may hold a
\* record written from outside the store.
NextStoreAnyStorage ==
    \/ NextStore
    \/ StorageEdited

SpecStoreAnyStorage == Init /\ [][NextStoreAnyStorage]_vars

\* The pure functions of raceAnimationUtils called on their own.
NextPure ==
    \/ CalculateNewPositionCall
    \/ CheckAllFinishedCall
    \/ CompileRaceResultsCall

SpecPure == PureInit /\ [][NextPure]_vars

\* The helpers of the store and the generators called on their own.
NextHelpers ==
    \/ CalculateHorseSpeedCall
    \/ GenerateHorsesCall
    \/ CreateRaceScheduleCall
    \/ ShuffleArrayCall

SpecHelpers == HelpersInit /\ [][NextHelpers]_vars

\* The application while nobody resets the game, with the frame clock and the
\* deferred callbacks running and every pause followed by a resume.
NextLive ==
    \/ AppInitializes
    \/ HandleGenerateProgram
    \/ HandleStartPause
    \/ Frame
    \/ TimerFires

\* Whether a frame can be served: a request is pending and the clock has not
\* reached the end of the model's time.
FrameEnabled == requestRef # Null /\ \E gap \in FrameGaps : now + gap <= MaxTime

\* Weak fairness of Frame is written out, with FrameEnabled for
\* ENABLED <<Frame>>_vars and the Frame step read from lastCall: the browser
\* serves a pending frame request, a scheduled callback fires, and a paused
\* game is resumed.
SpecLive ==
    /\ Init
    /\ [][NextLive]_vars
    /\ ([]<>(~FrameEnabled) \/ []<><<lastCall'.name = "frame">>_vars)
    /\ WF_vars(TimerFires)
    /\ WF_vars(gameState = PAUSED /\ HandleStartPause)

\* GameControls.handleStartPause when the button reads START or CONTINUE.
StartClicked == gameState = SCHEDULE_READY /\ HandleStartPause

\* The application while the game is left to run: the program is generated
\* and started, and nobody pauses, resets or reloads.
NextRun ==
    \/ AppInitializes
    \/ HandleGenerateProgram
    \/ StartClicked
    \/ RunFrame
    \/ TimerFires

\* Whether a frame of the game left to run can be served.
RunFrameEnabled == requestRef # Null /\ \E gap \in FrameGaps : now + gap <= MaxRunTime

\* The browser serves every pending frame request and fires every scheduled
\* callback (weak fairness of RunFrame written out as in SpecLive).
SpecRun ==
    /\ Init
    /\ [][NextRun]_vars
    /\ ([]<>(~RunFrameEnabled) \/ []<><<lastCall'.name = "frame">>_vars)
    /\ WF_vars(TimerFires)

\* ---------------------------------------------------------------- properties
\* The store fields a race is run in are those of a race just seeded for `race`.
SeededFor(re, race) ==
    /\ re.currentRace # Null
    /\ Val(re.currentRace).roundNumber = race.roundNumber
    /\ Val(re.currentRace).status = RUNNING
    /\ re.isAnimating
    /\ Len(re.horsePositions) = Len(race.horseIds)
    /\ \A i \in 1..Len(re.horsePositions) :
          /\ re.horsePositions[i].horseId = race.horseIds[i]
          /\ re.horsePositions[i].position = 0
          /\ re.horsePositions[i].finishTime = Null

\* C1: startRacing invoked in a game state other than SCHEDULE_READY changes
\* nothing of the store (gameState, roster, schedule, results,
\* currentRoundIndex, race execution); invoked in SCHEDULE_READY it makes the
\* game RACING and seeds the race in turn, leaving roster, results and
\* currentRoundIndex alone.
C1_StartRacingGuard ==
    [][lastCall'.name = "startRacing" =>
          IF gameState = SCHEDULE_READY
          THEN /\ gameState' = RACING
               /\ SeededFor(raceExecution', Val(schedule)[currentRoundIndex + 1])
               /\ Val(schedule')[currentRoundIndex + 1].status = RUNNING
               /\ UNCHANGED <<horses, results, currentRoundIndex>>
          ELSE UNCHANGED storeVars]_vars

\* startRacing was invoked while the game was paused in a race, and the race
\* is still the paused one.
C1_StartRacingWhilePaused ==
    /\ lastCall = [name |-> "startRacing", from |-> PAUSED]
    /\ gameState = PAUSED
    /\ raceExecution.currentRace # Null

\* C2: pauseRacing invoked in a game state other than RACING, and resumeRacing
\* invoked in one other than PAUSED, change nothing of the store; pauseRacing
\* in RACING gives PAUSED with isAnimating false, resumeRacing in PAUSED gives
\* RACING with isAnimating true, and both leave everything else alone.
C2_PauseResumeGuards ==
    [][/\ lastCall'.name = "pauseRacing" =>
             IF gameState = RACING
             THEN /\ gameState' = PAUSED
                  /\ raceExecution' = [raceExecution EXCEPT !.isAnimating = FALSE]
                  /\ UNCHANGED <<horses, schedule, results, currentRoundIndex>>
             ELSE UNCHANGED storeVars
       /\ lastCall'.name = "resumeRacing" =>
             IF gameState = PAUSED
             THEN /\ gameState' = RACING
                  /\ raceExecution' = [raceExecution EXCEPT !.isAnimating = TRUE]
                  /\ UNCHANGED <<horses, schedule, results, currentRoundIndex>>
             ELSE UNCHANGED storeVars]_vars

\* pauseRacing was invoked in a completed game, which still has its results.
C2_PauseWhenCompleted ==
    /\ lastCall = [name |-> "pauseRacing", from |-> COMPLETED]
    /\ gameState = COMPLETED
    /\ Len(results) = NumRounds

\* C3: resetGame, invoked in any game state, leaves the store in its initial
\* state: IDLE, empty roster, no schedule, no results, currentRoundIndex 0, no
\* current race, no participant positions, isAnimating false.
C3_ResetGame ==
    [][lastCall'.name = "resetGame" =>
          /\ gameState' = IDLE
          /\ horses' = <<>>
          /\ schedule' = Null
          /\ results' = <<>>
          /\ currentRoundIndex' = 0
          /\ raceExecution'.currentRace = Null
          /\ raceExecution'.horsePositions = <<>>
          /\ ~raceExecution'.isAnimating]_vars

\* resetGame was invoked while racing, after a race had been completed and
\* with the deferred start of the next one pending.
C3_ResetWhileRacing ==
    /\ lastCall = [name |-> "resetGame", from |-> RACING]
    /\ gameState = IDLE
    /\ timers > 0
    /\ positionsRef # <<>>

\* C4: generateSchedule invoked in HORSES_READY or COMPLETED installs a fresh
\* schedule of pending races over the roster, makes the game SCHEDULE_READY,
\* empties results, sets currentRoundIndex to 0, empties the race execution
\* and leaves the roster alone; invoked in IDLE, SCHEDULE_READY, RACING or
\* PAUSED it changes nothing of the store.
C4_GenerateScheduleGuard ==
    [][lastCall'.name = "generateSchedule" =>
          IF gameState = HORSES_READY \/ gameState = COMPLETED
          THEN /\ \E draws \in ScheduleDraws(horses) :
                     schedule' = Some(createRaceSchedule(horses, draws))
               /\ gameState' = SCHEDULE_READY
               /\ results' = <<>>
               /\ currentRoundIndex' = 0
               /\ raceExecution' = initialRaceExecution
               /\ horses' = horses
          ELSE UNCHANGED storeVars]_vars

\* generateSchedule was invoked while racing, and the race goes on.
C4_GenerateWhileRacing ==
    /\ lastCall = [name |-> "generateSchedule", from |-> RACING]
    /\ gameState = RACING
    /\ raceExecution.currentRace # Null

\* C5: initializeHorses invoked in a game state other than IDLE changes
\* nothing of the store.
C5_InitializeOnlyFromIdle ==
    [][lastCall'.name = "initializeHorses" /\ gameState # IDLE =>
          UNCHANGED storeVars]_vars

\* initializeHorses was invoked while racing: the game is HORSES_READY with
\* the race still current.
C5_InitializedWhileRacing ==
    /\ lastCall = [name |-> "initializeHorses", from |-> RACING]
    /\ gameState = HORSES_READY
    /\ raceExecution.currentRace # Null

\* C6: completeCurrentRace invoked in a game state other than RACING appends
\* no result, does not advance currentRoundIndex and does not change
\* gameState.
C6_CompleteOnlyWhileRacing ==
    [][lastCall'.name = "completeCurrentRace" /\ gameState # RACING =>
          UNCHANGED <<results, currentRoundIndex, gameState>>]_vars

\* completeCurrentRace was invoked while the first race was paused: its result
\* is recorded and the game is RACING.
C6_CompletedWhilePaused ==
    /\ lastCall = [name |-> "completeCurrentRace", from |-> PAUSED]
    /\ gameState = RACING
    /\ Len(results) = 1
    /\ currentRoundIndex = 1

\* C7: a deferred start-next-race callback that fires after resetGame or a
\* schedule generation ran since it was scheduled changes neither the schedule
\* nor the race execution, nor the positions the animation holds.
C7_StaleTimerHasNoEffect ==
    [][lastCall'.name = "staleTimerFires" =>
          UNCHANGED <<schedule, raceExecution, positionsRef>>]_vars

\* A stale callback fired in a race whose frame loop was running, and the race
\* is seeded anew: started now, every participant at 0.
C7_StaleTimerReseeded ==
    /\ lastCall = [name |-> "staleTimerFires", from |-> RACING]
    /\ raceExecution.currentRace # Null
    /\ raceExecution.animationStartTime = Some(now)
    /\ Val(schedule)[currentRoundIndex + 1].startTime = Some(now)
    /\ previousTimeRef = Some(now)
    /\ positionsRef # <<>>
    /\ \A i \in 1..Len(positionsRef) : positionsRef[i].position = 0

\* A race that is not the last has been completed and the next is not seeded.
BetweenRaces ==
    /\ gameState \in {RACING, PAUSED}
    /\ raceExecution.currentRace = Null
    /\ 0 < currentRoundIndex
    /\ schedule # Null
    /\ currentRoundIndex < Len(Val(schedule))

\* The race at currentRoundIndex is running with seeded participants.
NextRaceStarted ==
    /\ raceExecution.currentRace # Null
    /\ Val(raceExecution.currentRace).roundNumber = currentRoundIndex + 1
    /\ Val(raceExecution.currentRace).status = RUNNING
    /\ Len(raceExecution.horsePositions) > 0

\* C8: once a race that is not the last is completed, the next race
\* eventually starts, when nobody resets, every pause is followed by a resume
\* and the frame clock and the deferred callbacks keep running.
C8_NextRaceEventuallyStarts == BetweenRaces ~> NextRaceStarted

\* The game is RACING between two races with no deferred start pending.
C8_RacingWithNothingPending ==
    /\ BetweenRaces
    /\ gameState = RACING
    /\ raceExecution.isAnimating
    /\ timers = 0

\* C9: while the game is PAUSED no frame changes a participant's position or
\* finishTime, and none records a race result.
C9_NoMovementWhilePaused ==
    [][gameState = PAUSED /\ lastCall'.name = "frame" =>
          UNCHANGED <<positionsRef, raceExecution, results, currentRoundIndex>>]_vars

\* The game is paused in a race whose participants have moved, and no frame
\* request is pending.
C9_PausedMidRace ==
    /\ gameState = PAUSED
    /\ lastCall.name = "pauseRacing"
    /\ raceExecution.currentRace # Null
    /\ \E i \in 1..Len(positionsRef) : positionsRef[i].position > 0
    /\ requestRef = Null

\* The race the animation runs is the same before and after the step.
SameRace ==
    /\ raceExecution.currentRace # Null
    /\ raceExecution'.currentRace = raceExecution.currentRace
    /\ Len(positionsRef') = Len(positionsRef)

\* C10: from the resume of a paused race through the frames that follow, no
\* participant's position goes down and no finishTime is lost: movement
\* continues from the values frozen at the pause.
C10_ResumeContinuesFromFrozen ==
    [][(lastCall'.name \in {"resumeRacing", "frame"} /\ SameRace) =>
          \A i \in 1..Len(positionsRef) :
              /\ positionsRef'[i].position >= positionsRef[i].position
              /\ positionsRef[i].finishTime # Null =>
                    positionsRef'[i].finishTime = positionsRef[i].finishTime]_vars

\* A race that had been moving was paused and resumed, and every participant
\* is at 0.
C10_ResumedAtZero ==
    /\ lastCall = [name |-> "resumeRacing", from |-> PAUSED]
    /\ gameState = RACING
    /\ raceExecution.currentRace # Null
    /\ now > Val(raceExecution.animationStartTime) + 2 * MaxDeltaTime
    /\ positionsRef # <<>>
    /\ \A i \in 1..Len(positionsRef) : positionsRef[i].position = 0

\* The results recorded so far are those of rounds 1..Len(results), in order.
RoundsInOrder == \A i \in 1..Len(results) : results[i].roundNumber = i

\* C11: in every state whose game state is COMPLETED, results holds one entry
\* for every round of the schedule (NumRounds of them, 6 in the source), with
\* round numbers 1, 2, ... in that order, and every race of the schedule has
\* status completed.
C11_CompletedHasAllResults ==
    gameState = COMPLETED =>
        /\ Len(results) = NumRounds
        /\ RoundsInOrder
        /\ schedule # Null
        /\ Len(Val(schedule)) = NumRounds
        /\ \A i \in 1..NumRounds : Val(schedule)[i].status = RACE_COMPLETED

\* The last race's final frame has just completed the game.
C11_GameJustCompleted ==
    /\ gameState = COMPLETED
    /\ lastCall = [name |-> "frame", from |-> RACING]
    /\ Len(results) = NumRounds
    /\ currentRoundIndex = NumRounds

\* The races of the schedule, or none when there is no schedule.
Races == IF schedule = Null THEN <<>> ELSE Val(schedule)

\* Every race marked running comes after completed races only.
RunningAfterCompleted(races) ==
    \A i \in 1..Len(races) :
        races[i].status = RUNNING =>
            \A j \in 1..(i - 1) : races[j].status = RACE_COMPLETED

\* C12: currentRoundIndex goes up by exactly one on each step that records a
\* race result, changes otherwise only by being set to 0 by generateSchedule
\* or resetGame, and a race of the schedule is marked running only when all
\* the races before it are completed.
C12_RoundIndexSteps ==
    [][/\ Len(results') = Len(results) + 1 =>
              currentRoundIndex' = currentRoundIndex + 1
       /\ currentRoundIndex' # currentRoundIndex =>
              \/ /\ currentRoundIndex' = currentRoundIndex + 1
                 /\ Len(results') = Len(results) + 1
              \/ /\ currentRoundIndex' = 0
                 /\ lastCall'.name \in {"generateSchedule", "resetGame"}
       /\ RunningAfterCompleted(Races)']_vars

\* The second race has been started after the first one was recorded.
C12_SecondRaceRunning ==
    /\ currentRoundIndex = 1
    /\ Len(results) = 1
    /\ lastCall.name = "timerFires"
    /\ Races[1].status = RACE_COMPLETED
    /\ Races[2].status = RUNNING

\* C13: at most one race of the schedule has status running.
C13_AtMostOneRunning ==
    Cardinality({i \in 1..Len(Races) : Races[i].status = RUNNING}) <= 1

\* The game is racing with one race of the schedule marked running and an
\* earlier one completed.
C13_OneRunningOneCompleted ==
    /\ gameState = RACING
    /\ Cardinality({i \in 1..Len(Races) : Races[i].status = RUNNING}) = 1
    /\ \E i \in 1..Len(Races) : Races[i].status = RACE_COMPLETED

\* What restoring gives when state s has been persisted: the stored JSON of its
\* partialized part, hydrated into a store that has just been created.
RestoredFrom(s) == hydrate(Some(Stringify(partialize(s))))

\* C14: persisting a state and restoring it gives back the roster, the
\* schedule, the results and currentRoundIndex exactly, no race-execution
\* state, and the same game state except that RACING and PAUSED come back as
\* SCHEDULE_READY; what a reload of the page restores is this round trip of
\* the current state, so right after a restore the game state is never RACING
\* or PAUSED.
C14_PersistRestoreRoundTrip ==
    LET r == RestoredFrom(State)
    IN /\ r.horses = horses
       /\ r.schedule = schedule
       /\ r.results = results
       /\ r.currentRoundIndex = currentRoundIndex
       /\ r.raceExecution = initialRaceExecution
       /\ r.gameState = IF gameState \in {RACING, PAUSED} THEN SCHEDULE_READY
                        ELSE gameState
       /\ hydrate(storage) = r
       /\ lastCall.name = "reload" =>
              /\ gameState \notin {RACING, PAUSED}
              /\ raceExecution = initialRaceExecution

\* The page has been reloaded while a game with one recorded result and a
\* started second race was paused: the store is in SCHEDULE_READY with that
\* result and no race execution.
C14_RestoredFromPaused ==
    /\ lastCall = [name |-> "reload", from |-> PAUSED]
    /\ gameState = SCHEDULE_READY
    /\ Len(results) = 1
    /\ currentRoundIndex = 1
    /\ Races[2].startTime # Null
    /\ raceExecution = initialRaceExecution

\* C15: when the page was reloaded in RACING or PAUSED with k results
\* recorded, the startRacing that follows starts round k + 1 (the race at
\* index k) with every participant at position 0 and without finishTime, in
\* the store and in the animation's refs, and keeps the k results; and a game
\* that reaches COMPLETED has recorded each round once.
C15_RestartAfterRestore ==
    [][/\ (/\ lastCall.name = "reload"
           /\ lastCall.from \in {RACING, PAUSED}
           /\ lastCall'.name = "startRacing") =>
              /\ gameState' = RACING
              /\ results' = results
              /\ currentRoundIndex' = Len(results)
              /\ SeededFor(raceExecution', Races[Len(results) + 1])
              /\ Races'[Len(results) + 1].status = RUNNING
              /\ positionsRef' = raceExecution'.horsePositions
       /\ gameState' = COMPLETED =>
              /\ Len(results') = NumRounds
              /\ RoundsInOrder']_vars

\* Round 2 has been started by startRacing, which happens only after a
\* restore: round 1's result is kept and the participants wait at 0.
C15_SecondRoundRestarted ==
    /\ lastCall = [name |-> "startRacing", from |-> SCHEDULE_READY]
    /\ Len(results) = 1
    /\ raceExecution.currentRace # Null
    /\ Val(raceExecution.currentRace).roundNumber = 2
    /\ positionsRef # <<>>
    /\ \A i \in 1..Len(positionsRef) : positionsRef[i].position = 0

\* C16: loading a malformed persisted record is treated as if no record
\* existed: after the reload the store is in the fresh initial IDLE state and
\* has adopted no field of the record.
C16_MalformedRecordIsAbsent ==
    [][(lastCall'.name = "reload" /\ storage # Null
        /\ Val(storage) \in MalformedRecords) => State' = initialState]_vars

\* A record with game state SCHEDULE_READY and no schedule has been loaded,
\* and the store is in SCHEDULE_READY without a schedule.
C16_MalformedRecordAdopted ==
    /\ lastCall.name = "reload"
    /\ storage # Null
    /\ Val(storage) \in MalformedRecords
    /\ gameState = SCHEDULE_READY
    /\ schedule = Null
    /\ Len(horses) = NumHorses

\* The position 100 of the race the functions are called for.
Line == Finish(CallDistance)

\* C17: one calculateNewPosition call on a participant state with position in
\* [0, 100] (deltaTime not negative, a positive distance multiplier, a speed
\* variation in [0.8, 1.2]) returns a position that is not smaller and not
\* over 100, and returns the state as it was when finishTime was already set.
C17_PositionNeverDecreasesNorExceeds ==
    [][lastCall'.name = "calculateNewPosition" =>
          /\ Len(positionsRef') = Len(positionsRef)
          /\ \A i \in 1..Len(positionsRef) :
                /\ positionsRef[i].position <= positionsRef'[i].position
                /\ positionsRef'[i].position <= Line
                /\ positionsRef[i].finishTime # Null =>
                      positionsRef'[i] = positionsRef[i]]_vars

\* A call has moved a participant from half way to a position short of the
\* line, and has left one with a finishTime where it was.
C17_MovedShortOfLine ==
    /\ lastCall.name = "calculateNewPosition"
    /\ Len(positionsRef) = 2
    /\ positionsRef[1].finishTime = Null
    /\ positionsRef[1].position > Line \div 2
    /\ positionsRef[1].position < Line - 1
    /\ positionsRef[2].finishTime = Some(1)
    /\ positionsRef[2].position = 0

\* C18: from the start of a race until its result is recorded, whatever
\* frames, pauses, resumes and timer firings happen, no participant's
\* position goes down or leaves [0, 100], and a participant that has a
\* finishTime keeps it and its position.
C18_MonotoneOverTheRace ==
    [][SameRace =>
          \A i \in 1..Len(positionsRef) :
              /\ positionsRef'[i].position >= positionsRef[i].position
              /\ positionsRef'[i].position >= 0
              /\ positionsRef'[i].position <= Finish(Val(raceExecution.currentRace).distance)
              /\ positionsRef[i].finishTime # Null =>
                    /\ positionsRef'[i].finishTime = positionsRef[i].finishTime
                    /\ positionsRef'[i].position = positionsRef[i].position]_vars

\* A race that started more than three frames ago is running with every
\* participant at 0 again, the frame loop having just restarted.
C18_BackAtStartMidRace ==
    /\ gameState = RACING
    /\ lastCall.name = "frame"
    /\ raceExecution.currentRace # Null
    /\ now > Val(raceExecution.animationStartTime) + 3 * MaxDeltaTime
    /\ positionsRef # <<>>
    /\ \A i \in 1..Len(positionsRef) : positionsRef[i].position = 0

\* C19: calculateNewPosition sets finishTime exactly on the call in which the
\* position goes from below 100 to at least 100, to the currentTime of that
\* call; where the new position is below 100 finishTime stays unset, and a
\* finishTime that is set is not set again.
C19_FinishTimeSetOnCrossing ==
    [][lastCall'.name = "calculateNewPosition" =>
          \A i \in 1..Len(positionsRef) :
              LET hp == positionsRef[i]
                  new == positionsRef'[i]
                  crosses == hp.position < Line /\ new.position >= Line
              IN IF hp.finishTime # Null
                 THEN new.finishTime = hp.finishTime
                 ELSE /\ crosses => new.finishTime = Some(lastCall'.currentTime)
                      /\ ~crosses => new.finishTime = Null
                      /\ new.position < Line => new.finishTime = Null]_vars

\* The second call has taken a participant over the line and given it the
\* time of that call, next to one that stands on the line without a
\* finishTime and has not been given one.
C19_CrossedOnSecondCall ==
    /\ lastCall.name = "calculateNewPosition"
    /\ lastCall.currentTime = 2
    /\ Len(positionsRef) = 2
    /\ positionsRef[1].position = Line
    /\ positionsRef[1].finishTime = Some(2)
    /\ positionsRef[2].position = Line
    /\ positionsRef[2].finishTime = Null

\* C20: checkAllFinished(positions) is true exactly when no entry is without
\* a finishTime: true for the empty list, false as soon as one entry lacks
\* its finishTime.
C20_CheckAllFinished ==
    lastCall.name = "checkAllFinished" =>
        /\ lastCall.returned =
              (Cardinality({i \in 1..Len(positionsRef) :
                              positionsRef[i].finishTime = Null}) = 0)
        /\ positionsRef = <<>> => lastCall.returned

\* checkAllFinished has been called on the empty list and has returned true.
C20_EmptyListFinished ==
    /\ lastCall.name = "checkAllFinished"
    /\ positionsRef = <<>>
    /\ lastCall.returned

\* The finishTime a participant state is ranked by: 0 when it has none.
RankKey(hp) == IF hp.finishTime = Null THEN 0 ELSE Val(hp.finishTime)

\* C21: compileRaceResults ranks the participants by ascending finishTime (a
\* missing one counting as 0), participants of equal finishTime in the order
\* of the input list (the lanes), gives them the positions 1..N in that
\* order, and leaves the input list in the order it had.
C21_StableDenseRanking ==
    [][lastCall'.name = "compileRaceResults" =>
          LET input == positionsRef
              out == lastCall'.returned
          IN /\ positionsRef' = input
             /\ Len(out) = Len(input)
             /\ {out[k].horseId : k \in 1..Len(out)} = 1..Len(input)
             /\ \A k \in 1..Len(out) : out[k].position = k
             /\ \A k, l \in 1..Len(out) :
                   k < l =>
                      \/ RankKey(input[out[k].horseId]) < RankKey(input[out[l].horseId])
                      \/ /\ RankKey(input[out[k].horseId]) = RankKey(input[out[l].horseId])
                         /\ out[k].horseId < out[l].horseId]_vars

\* The participant in lane 2 has been ranked first for its earlier
\* finishTime, ahead of the one in lane 1.
C21_SecondLaneRankedFirst ==
    /\ lastCall.name = "compileRaceResults"
    /\ Len(positionsRef) = 2
    /\ positionsRef[1].finishTime = Some(2)
    /\ positionsRef[2].finishTime = Some(1)
    /\ lastCall.returned[1].horseId = 2
    /\ lastCall.returned[2].horseId = 1

\* C22: the time of each result entry is the participant's finishTime minus
\* the animation start time, with currentTime in place of a finishTime that
\* is absent; and when every participant has a finishTime that is not before
\* the start, as in a race the animation has run, no time is negative and the
\* times do not go down along the ranking.
C22_TimeIsFinishMinusStart ==
    [][lastCall'.name = "compileRaceResults" =>
          LET out == lastCall'.returned
              start == animationStartTimeRef
          IN /\ \A k \in 1..Len(out) :
                   LET hp == positionsRef[out[k].horseId]
                   IN out[k].time =
                         (IF hp.finishTime = Null THEN lastCall'.currentTime
                          ELSE Val(hp.finishTime)) - start
             /\ (\A i \in 1..Len(positionsRef) :
                    /\ positionsRef[i].finishTime # Null
                    /\ Val(positionsRef[i].finishTime) >= start) =>
                   \A k \in 1..Len(out) :
                       /\ out[k].time >= 0
                       /\ k > 1 => out[k - 1].time <= out[k].time]_vars

\* Two participants that finished at different times after the start have
\* been given their elapsed times, the smaller one first.
C22_ElapsedTimesRanked ==
    /\ lastCall.name = "compileRaceResults"
    /\ animationStartTimeRef = 1
    /\ Len(positionsRef) = 2
    /\ positionsRef[1].finishTime = Some(2)
    /\ positionsRef[2].finishTime = Some(1)
    /\ lastCall.returned[1].time = 0
    /\ lastCall.returned[2].time = 1

\* The times recorded for the races the animation has run are not negative
\* and do not go down along the ranking.
RecordedTimesOrdered ==
    \A r \in 1..Len(results) :
        \A k \in 1..Len(results[r].results) :
            /\ results[r].results[k].time >= 0
            /\ results[r].results[k].position = k
            /\ k > 1 => results[r].results[k - 1].time <= results[r].results[k].time

\* The step is a frame in which animate updates the participants.
AnimatingFrame ==
    /\ lastCall'.name = "frame"
    /\ requestRef # Null
    /\ previousTimeRef # Null
    /\ Val(requestRef).shouldAnimate
    /\ Val(requestRef).currentRace # Null
    /\ Len(positionsRef) > 0

\* C23: in one frame every participant is updated with the same deltaTime
\* (the capped time since the previous frame) and the same currentTime (the
\* time read when the frame began), so the participants that cross the line
\* in one frame get the same finishTime.
C23_OneSnapshotPerFrame ==
    [][AnimatingFrame =>
          LET deltaTime == Min(now' - Val(previousTimeRef), MaxDeltaTime)
              distance == Val(Val(requestRef).currentRace).distance
          IN /\ Len(positionsRef') = Len(positionsRef)
             /\ \A i \in 1..Len(positionsRef) :
                   /\ \E r \in RandomValues :
                         positionsRef'[i] =
                            calculateNewPosition(positionsRef[i], deltaTime, distance,
                                                 generateSpeedVariation(r), now')
                   /\ (positionsRef[i].finishTime = Null
                       /\ positionsRef'[i].finishTime # Null) =>
                         positionsRef'[i].finishTime = Some(now')]_vars

\* Both participants of a race have crossed the line in the frame just
\* served and have the same finishTime, the time of that frame.
C23_FinishedTogether ==
    /\ lastCall.name = "frame"
    /\ Len(positionsRef) = 2
    /\ positionsRef[1].finishTime = Some(now)
    /\ positionsRef[2].finishTime = Some(now)

\* C24: for every integer condition c in 0..100, calculateHorseSpeed(c) is
\* 0.5 + c / 200 (speeds are in 1/200 here: 100 + c): it grows strictly with
\* c, it is 0.5 for 0, 0.75 for 50 and 1.0 for 100, and the difference of two
\* speeds is that of the conditions over 200, so equal steps of condition
\* give equal steps of speed.
C24_SpeedIsLinear ==
    lastCall.name = "calculateHorseSpeed" =>
        LET c == lastCall.conditions[1]
            d == lastCall.conditions[2]
            speedC == lastCall.returned[1]
            speedD == lastCall.returned[2]
        IN /\ speedC = 100 + c
           /\ c < d => speedC < speedD
           /\ speedD - speedC = d - c
           /\ c = 0 => speedC = 100
           /\ c = 50 => speedC = 150
           /\ c = 100 => speedC = 200

\* calculateHorseSpeed has been called with the conditions 50 and 100 and
\* has returned 0.75 and 1.0.
C24_AverageAndBest ==
    /\ lastCall.name = "calculateHorseSpeed"
    /\ lastCall.conditions = <<50, 100>>
    /\ lastCall.returned = <<150, 200>>

\* The entries of a list are pairwise distinct.
Distinct(list) ==
    \A i, j \in 1..Len(list) : i # j => list[i] # list[j]

\* C26: for every roster and every outcome of the draws, createRaceSchedule
\* returns one race for each round (NumRounds of them, 6 in the source) with
\* round numbers 1, 2, ... and the distances 1200, 1400, ... in that order,
\* status pending and no timestamps, each with HorsesPerRace (10 in the
\* source) pairwise distinct horse ids that all belong to the roster.
C26_ScheduleShape ==
    lastCall.name = "createRaceSchedule" =>
        LET races == lastCall.returned
            ids == {lastCall.roster[i].id : i \in 1..Len(lastCall.roster)}
        IN /\ Len(races) = NumRounds
           /\ \A n \in 1..Len(races) :
                 /\ races[n].roundNumber = n
                 /\ races[n].distance = ROUND_DISTANCES[n]
                 /\ races[n].distance = 1200 + 200 * (n - 1)
                 /\ races[n].status = PENDING
                 /\ races[n].startTime = Null
                 /\ races[n].endTime = Null
                 /\ Len(races[n].horseIds) = HorsesPerRace
                 /\ Distinct(races[n].horseIds)
                 /\ \A k \in 1..Len(races[n].horseIds) : races[n].horseIds[k] \in ids

\* A schedule has been built whose first two races have different
\* participants.
C26_RacesDiffer ==
    /\ lastCall.name = "createRaceSchedule"
    /\ Len(lastCall.returned) = NumRounds
    /\ lastCall.returned[1].horseIds # lastCall.returned[2].horseIds

\* C27: for every outcome of the draws, generateHorses returns NumHorses
\* horses (20 in the source) whose ids are horse_1, horse_2, ... by index and
\* so pairwise distinct, whose colours are pairwise distinct colours of the
\* palette, and whose conditions are integers within 1..100.
C27_RosterShape ==
    lastCall.name = "generateHorses" =>
        LET roster == lastCall.returned
        IN /\ Len(roster) = NumHorses
           /\ \A i \in 1..Len(roster) :
                 /\ roster[i].id = i
                 /\ roster[i].color \in 1..NumHorses
                 /\ roster[i].condition \in 1..100
           /\ Distinct([i \in 1..Len(roster) |-> roster[i].id])
           /\ Distinct([i \in 1..Len(roster) |-> roster[i].color])

\* A roster has been generated with the palette in another order than
\* listed and with the lowest and a high condition in it.
C27_ShuffledRoster ==
    /\ lastCall.name = "generateHorses"
    /\ lastCall.returned[1].color # 1
    /\ lastCall.returned[1].condition = 1
    /\ lastCall.returned[2].condition = 91

\* The step is a call of startNextRace (on its own, from startRacing or from
\* the deferred callback) that starts a race.
StartsRace ==
    \/ lastCall'.name = "startRacing" /\ StartRacingSeeds(State)
    \/ /\ lastCall'.name \in {"startNextRace", "timerFires", "staleTimerFires"}
       /\ SeedsRace(State)

\* C25: starting a race seeds one participant state for each horse id of the
\* race, in the order of the list, at position 0, without finishTime, in the
\* lane of its 1-based index and with the speed of the condition of the
\* roster's horse of that id, or 0.75 when the roster has no such horse; the
\* race is marked running and isAnimating is true.
C25_RaceSeeding ==
    [][StartsRace =>
          LET race == Races[currentRoundIndex + 1]
              seeded == raceExecution'.horsePositions
          IN /\ Len(seeded) = Len(race.horseIds)
             /\ \A i \in 1..Len(seeded) :
                   LET found == {k \in 1..Len(horses) : horses[k].id = race.horseIds[i]}
                   IN /\ seeded[i].horseId = race.horseIds[i]
                      /\ seeded[i].position = 0
                      /\ seeded[i].finishTime = Null
                      /\ seeded[i].lane = i
                      /\ found = {} => seeded[i].speed = 150
                      /\ \A k \in found :
                            seeded[i].speed = 100 + horses[k].condition
             /\ raceExecution'.isAnimating
             /\ raceExecution'.currentRace # Null
             /\ Val(raceExecution'.currentRace).status = RUNNING
             /\ Val(raceExecution'.currentRace).roundNumber = race.roundNumber
             /\ Races'[currentRoundIndex + 1].status = RUNNING]_vars

\* A race has been started whose first participant is not in the roster and
\* runs at 0.75, next to one that runs at the speed of its condition.
C25_SeededWithMissingHorse ==
    /\ lastCall.name = "startRacing"
    /\ gameState = RACING
    /\ Len(raceExecution.horsePositions) = HorsesPerRace
    /\ raceExecution.horsePositions[1].speed = 150
    /\ \A k \in 1..Len(horses) : horses[k].id # raceExecution.horsePositions[1].horseId
    /\ raceExecution.horsePositions[2].speed # 150
    /\ raceExecution.horsePositions[2].lane = 2

\* The farthest a participant moves in one frame of the longest deltaTime
\* passed on, at the highest speed variation (1.2).
LongestMove(hp) == hp.speed * 120 * MaxDeltaTime * (BASE_DISTANCE \div 400)

\* C28: the frame clock passes no deltaTime above the cap (100 ms in the
\* source, MaxDeltaTime here) to the callback, so no participant moves
\* farther in a frame than the cap allows; when the animation becomes
\* active, at a start or at a resume, the previous frame time is forgotten,
\* and a frame that finds none calls no callback: it moves nobody and
\* records nothing, whatever time has passed.
C28_DeltaTimeCapped ==
    [][/\ (lastCall'.name = "frame" /\ previousTimeRef # Null) =>
              /\ Len(positionsRef') = Len(positionsRef)
              /\ \A i \in 1..Len(positionsRef) :
                    positionsRef'[i].position - positionsRef[i].position
                       <= LongestMove(positionsRef[i])
       /\ (lastCall'.name = "frame" /\ previousTimeRef = Null) =>
              /\ UNCHANGED <<positionsRef, storeVars>>
              /\ previousTimeRef' = Some(now')
       /\ (/\ ~(raceExecution.isAnimating /\ gameState = RACING)
           /\ raceExecution'.isAnimating /\ gameState' = RACING) =>
              previousTimeRef' = Null]_vars

\* Two frames have been served since the race started, each twice the cap
\* after the one before: the first moved nobody, the second moved the first
\* participant as far as one frame of the cap does at the lowest speed
\* variation.
C28_LateFrameCapped ==
    /\ lastCall.name = "frame"
    /\ gameState = RACING
    /\ raceExecution.currentRace # Null
    /\ now = Val(raceExecution.animationStartTime) + 4 * MaxDeltaTime
    /\ previousTimeRef = Some(now)
    /\ positionsRef # <<>>
    /\ positionsRef[1].position =
          positionsRef[1].speed * 80 * MaxDeltaTime * (BASE_DISTANCE \div 400)

\* The Generate Program and Start/Pause/Resume buttons are enabled in the
\* game states whose store guards accept their actions.
GuardedControlsFollowGuards ==
    /\ ~isGenerateProgramDisabled <=> GeneratesSchedule(State)
    /\ ~isStartPauseButtonDisabled <=> gameState \in {SCHEDULE_READY, RACING, PAUSED}

\* C29 (as amended): Generate Program is enabled iff gameState is
\* HORSES_READY or COMPLETED, Start/Pause/Resume is enabled iff gameState is
\* SCHEDULE_READY, RACING or PAUSED, and Reset is disabled iff gameState is
\* RACING or IDLE (every button is disabled while the roster is loading);
\* each call the controls make is the one of the current game state and
\* passes its guard, so the store changes state on every click.
C29_ControlsFollowGuards ==
    /\ [](/\ GuardedControlsFollowGuards
          /\ isResetDisabled <=> gameState \in {RACING, IDLE})
    /\ [][/\ lastCall'.name = "generateSchedule" =>
               GeneratesSchedule(State) /\ gameState' = SCHEDULE_READY
          /\ lastCall'.name = "startRacing" =>
               gameState = SCHEDULE_READY /\ gameState' # SCHEDULE_READY
          /\ lastCall'.name = "pauseRacing" =>
               gameState = RACING /\ gameState' = PAUSED
          /\ lastCall'.name = "resumeRacing" =>
               gameState = PAUSED /\ gameState' = RACING
          /\ lastCall'.name = "resetGame" =>
               gameState \notin {RACING, IDLE} /\ gameState' = IDLE]_vars

\* C29 (as stated): the same enabledness for Generate Program and
\* Start/Pause/Resume, and Reset disabled iff gameState is RACING.
C29_ResetDisabledOnlyWhileRacing ==
    /\ GuardedControlsFollowGuards
    /\ isResetDisabled <=> gameState = RACING

\* The game has just been reset from a finished game: the roster is not
\* loaded yet, and the Reset button is disabled although nothing is racing.
C29_ResetDisabledWhileLoading ==
    /\ lastCall = [name |-> "resetGame", from |-> COMPLETED]
    /\ gameState = IDLE
    /\ isResetDisabled

\* speed * speedVariation * deltaTime / (50 * distance / 1200) as a numerator
\* over PosDen(distance) = 200 * 100 * 50 * distance / 400, the speed being
\* in 1/200 and the speed variation in 1/100.
UnclampedMove(speed, speedVariation, deltaTime) ==
    speed * speedVariation * deltaTime * (1200 \div 400)

\* C30: for an unfinished participant, calculateNewPosition returns
\* position' = min(position + speed * speedVariation * deltaTime /
\* (50 * distance / 1200), 100); where the movement is not clamped, the same
\* call with twice the speed, or with twice the deltaTime, moves the
\* participant twice as far, and the same call on twice the distance moves it
\* half as far (by the same numerator over a denominator twice as large).
C30_MovementFormula ==
    [][lastCall'.name = "calculateNewPosition" =>
          \A i \in 1..Len(positionsRef) :
             LET hp == positionsRef[i]
                 deltaTime == lastCall'.deltaTime
                 speedVariation == lastCall'.speedVariation
                 move == UnclampedMove(hp.speed, speedVariation, deltaTime)
                 moved == positionsRef'[i].position - hp.position
                 Moved(from, delta, distance) ==
                     calculateNewPosition(from, delta, distance, speedVariation, now).position
                        - from.position
             IN hp.finishTime = Null =>
                  /\ positionsRef'[i].position =
                        Min(hp.position + move, 100 * PosDen(CallDistance))
                  /\ hp.position + 2 * move < 100 * PosDen(CallDistance) =>
                        /\ Moved([hp EXCEPT !.speed = 2 * hp.speed], deltaTime, CallDistance)
                              = 2 * moved
                        /\ Moved(hp, 2 * deltaTime, CallDistance) = 2 * moved
                  /\ hp.position + move < 100 * PosDen(CallDistance) =>
                        /\ PosDen(2 * CallDistance) = 2 * PosDen(CallDistance)
                        /\ Moved([hp EXCEPT !.position = 2 * hp.position], deltaTime,
                                 2 * CallDistance) = moved]_vars

\* On a race longer than the base distance, a call with the longest
\* deltaTime and the lowest speed variation has moved an unfinished
\* participant from the start by less than half the track, so that twice
\* the movement is not clamped either.
C30_MovedLessThanHalf ==
    /\ lastCall.name = "calculateNewPosition"
    /\ lastCall.deltaTime = MaxDeltaTime
    /\ CallDistance > BASE_DISTANCE
    /\ \E i \in 1..Len(positionsRef) :
          /\ positionsRef[i].finishTime = Null
          /\ positionsRef[i].position =
                UnclampedMove(positionsRef[i].speed, lastCall.speedVariation, MaxDeltaTime)
          /\ 2 * positionsRef[i].position < 100 * PosDen(CallDistance)

\* The fields of a participant state that are given when the race is seeded.
SeededFields(hp) == <<hp.horseId, hp.lane, hp.speed>>

\* C31: while a race is run, every participant of the animation has the
\* horse id, the lane and the speed it was seeded with at the start of the
\* race (those of raceExecution.horsePositions), and no frame, pause or
\* resume changes them.
C31_SeededFieldsKept ==
    /\ []((raceExecution.currentRace # Null /\ positionsRef # <<>>) =>
            /\ Len(positionsRef) = Len(raceExecution.horsePositions)
            /\ \A i \in 1..Len(positionsRef) :
                  SeededFields(positionsRef[i])
                     = SeededFields(raceExecution.horsePositions[i]))
    /\ [][(lastCall'.name \in {"frame", "pauseRacing", "resumeRacing"} /\ SameRace) =>
             \A i \in 1..Len(positionsRef) :
                SeededFields(positionsRef'[i]) = SeededFields(positionsRef[i])]_vars

\* A frame has moved the participants of a race: all are on their way, in the
\* lanes and at the speeds they were seeded with, the first two at different
\* speeds.
C31_MovedWithSeededFields ==
    /\ lastCall.name = "frame"
    /\ gameState = RACING
    /\ raceExecution.currentRace # Null
    /\ Len(positionsRef) = HorsesPerRace
    /\ \A i \in 1..Len(positionsRef) :
          /\ positionsRef[i].position > 0
          /\ positionsRef[i].lane = i
          /\ SeededFields(positionsRef[i]) = SeededFields(raceExecution.horsePositions[i])
    /\ positionsRef[1].speed # positionsRef[2].speed

\* How many times element e occurs in seq.
Occurrences(seq, e) == Cardinality({i \in 1..Len(seq) : seq[i] = e})

\* C32: for every array and every outcome of the index draws, shuffleArray
\* returns an array of the same length in which every element occurs as
\* often as in the array it was given, and leaves the given array as it was;
\* an empty or one-element array is returned as an equal array.
C32_ShuffleIsPermutation ==
    lastCall.name = "shuffleArray" =>
        /\ Len(lastCall.returned) = Len(lastCall.given)
        /\ \A e \in 1..MaxArrayLen :
              Occurrences(lastCall.returned, e) = Occurrences(lastCall.given, e)
        /\ lastCall.array = lastCall.given
        /\ Len(lastCall.given) <= 1 => lastCall.returned = lastCall.given

\* shuffleArray has returned an array of the longest length with every
\* element at another place than in the array it was given.
C32_EveryElementMoved ==
    /\ lastCall.name = "shuffleArray"
    /\ Len(lastCall.given) = MaxArrayLen
    /\ \A i \in 1..MaxArrayLen : lastCall.returned[i] # lastCall.given[i]

\* Every participant the animation holds has a finishTime.
EveryoneFinished(positions) ==
    \A i \in 1..Len(positions) : positions[i].finishTime # Null

\* C33: the result of a race is recorded in exactly the frame in which its
\* last unfinished participant gets a finishTime: a step records a result
\* only if it is a frame of animate before which some participant had no
\* finishTime and after which every one has; every such frame records one
\* result; and while a race is the current one some participant is
\* unfinished, so no later frame is left to record it.
C33_RecordedOnLastFinish ==
    /\ []((raceExecution.currentRace # Null /\ positionsRef # <<>>) =>
            ~EveryoneFinished(positionsRef))
    /\ [][/\ Len(results') > Len(results) =>
               /\ AnimatingFrame
               /\ Len(results') = Len(results) + 1
               /\ ~EveryoneFinished(positionsRef)
               /\ Len(positionsRef') = Len(positionsRef)
               /\ EveryoneFinished(positionsRef')
          /\ (AnimatingFrame /\ EveryoneFinished(positionsRef')) =>
               Len(results') = Len(results) + 1]_vars

\* The frame just served has recorded the first race, whose two participants
\* crossed the line in different frames.
C33_RecordedAfterLaterFinisher ==
    /\ lastCall.name = "frame"
    /\ Len(results) = 1
    /\ raceExecution.currentRace = Null
    /\ Len(positionsRef) = HorsesPerRace
    /\ EveryoneFinished(positionsRef)
    /\ positionsRef[1].finishTime # positionsRef[2].finishTime

\* The shortest and the longest time from one frame to the next.
ShortestGap == CHOOSE gap \in FrameGaps : \A other \in FrameGaps : gap <= other
LongestGap == CHOOSE gap \in FrameGaps : \A other \in FrameGaps : other <= gap

\* The least a frame moves participant hp: at the lowest speed variation
\* (0.8) and the shortest deltaTime a frame passes on.
SlowestMove(hp) ==
    hp.speed * 80 * CapDeltaTime(ShortestGap) * (BASE_DISTANCE \div 400)

\* The frames of animate after which hp is over the line at the latest.
FramesLeft(hp, distance) ==
    IF hp.finishTime # Null THEN 0
    ELSE (Finish(distance) - hp.position + SlowestMove(hp) - 1) \div SlowestMove(hp)

\* The most FramesLeft of the participants.
MostFramesLeft(positions, distance) ==
    LET left == {FramesLeft(positions[i], distance) : i \in 1..Len(positions)}
    IN CHOOSE n \in left : \A m \in left : m <= n

\* Round k is being run, and the model's clock leaves room for the frames
\* its participants need at the latest, however late each frame comes.
RaceUnderWay(k) ==
    /\ gameState = RACING
    /\ raceExecution.currentRace # Null
    /\ Val(raceExecution.currentRace).roundNumber = k
    /\ positionsRef # <<>>
    /\ now + LongestGap * (MostFramesLeft(positionsRef, RoundDistances[k])
                             + (IF previousTimeRef = Null THEN 1 ELSE 0)) <= MaxRunTime

\* Round k has been run to its end: its result is the last recorded, no race
\* is current, and every participant is at position 100 with a finishTime.
RaceRunToEnd(k) ==
    /\ Len(results) = k
    /\ raceExecution.currentRace = Null
    /\ positionsRef # <<>>
    /\ \A i \in 1..Len(positionsRef) :
          /\ positionsRef[i].position = Finish(RoundDistances[k])
          /\ positionsRef[i].finishTime # Null

\* C34: while a seeded race is run in RACING and frames keep coming with a
\* positive deltaTime, nobody pausing or resetting, every participant
\* eventually reaches position 100 and the race is completed, whatever speed
\* variation each frame draws and whatever the speeds of the participants.
C34_RaceEventuallyCompletes ==
    \A k \in 1..NumRounds : RaceUnderWay(k) ~> RaceRunToEnd(k)

\* The second race is under way: a frame has left one participant over the
\* line and another short of it.
C34_SecondRaceHalfDone ==
    /\ RaceUnderWay(2)
    /\ lastCall.name = "frame"
    /\ \E i, j \in 1..Len(positionsRef) :
          /\ positionsRef[i].finishTime # Null
          /\ positionsRef[j].finishTime = Null
          /\ positionsRef[j].position > 0

\* C35: in every state the number of recorded results is currentRoundIndex,
\* currentRoundIndex is within 0..NumRounds (0..6 in the source), and the
\* i-th recorded result has roundNumber i and the distance of the i-th race
\* of the schedule.
C35_ResultsMatchRoundIndex ==
    /\ Len(results) = currentRoundIndex
    /\ currentRoundIndex \in 0..NumRounds
    /\ \A i \in 1..Len(results) :
          /\ results[i].roundNumber = i
          /\ i <= Len(Races)
          /\ results[i].distance = Races[i].distance

\* The page has been loaded again after the first race: one result and
\* currentRoundIndex 1 are restored, and the second race is still to be run.
C35_RestoredAfterFirstRace ==
    /\ lastCall.name = "reload"
    /\ gameState = SCHEDULE_READY
    /\ Len(results) = 1
    /\ currentRoundIndex = 1
    /\ Races[2].status = PENDING

\* The steps a race's status takes or keeps within one schedule.
StatusMoves ==
    {<<PENDING, PENDING>>, <<PENDING, RUNNING>>, <<RUNNING, RUNNING>>,
     <<RUNNING, RACE_COMPLETED>>, <<RACE_COMPLETED, RACE_COMPLETED>>}

\* C36: in every state with a schedule, the races before the one at
\* currentRoundIndex are completed and the races after it are pending; and
\* as long as the schedule is not replaced by a new one, the status of each
\* of its races only goes from pending to running and from running to
\* completed.
C36_StatusFollowsRoundIndex ==
    /\ [](\A i \in 1..Len(Races) :
             /\ i < currentRoundIndex + 1 => Races[i].status = RACE_COMPLETED
             /\ i > currentRoundIndex + 1 => Races[i].status = PENDING)
    /\ [][(schedule # Null /\ schedule' # Null /\ lastCall'.name # "generateSchedule") =>
             /\ Len(Val(schedule')) = Len(Val(schedule))
             /\ \A i \in 1..Len(Val(schedule)) :
                   <<Val(schedule)[i].status, Val(schedule')[i].status>> \in StatusMoves]_vars

\* The deferred callback has just started the second race: the first is
\* completed, the second is running, the races after it are pending.
C36_SecondRaceMarkedRunning ==
    /\ lastCall.name = "timerFires"
    /\ currentRoundIndex = 1
    /\ Len(Races) = NumRounds
    /\ Races[1].status = RACE_COMPLETED
    /\ Races[2].status = RUNNING
    /\ \A i \in 3..Len(Races) : Races[i].status = PENDING

\* C37: whenever a race of the schedule has status running, the game is
\* RACING or PAUSED and the race execution holds that round as its current
\* race; so no race is running in SCHEDULE_READY or HORSES_READY, nor after
\* the state has been restored from localStorage.
C37_RunningRaceIsCurrent ==
    \A i \in 1..Len(Races) :
        Races[i].status = RUNNING =>
            /\ gameState \in {RACING, PAUSED}
            /\ raceExecution.currentRace # Null
            /\ Val(raceExecution.currentRace).roundNumber = Races[i].roundNumber

\* The page has been loaded again during a race: the game is restored as
\* SCHEDULE_READY with no current race, and the schedule still has the race
\* as running.
C37_RunningAfterRestore ==
    /\ lastCall.name = "reload"
    /\ gameState = SCHEDULE_READY
    /\ raceExecution.currentRace = Null
    /\ \E i \in 1..Len(Races) : Races[i].status = RUNNING

\* C38: in every state isAnimating is true only if the game is RACING and
\* there is a current race with one seeded participant for each of its
\* participant ids; the store is never RACING with isAnimating true and no
\* current race.
C38_AnimatingHasCurrentRace ==
    raceExecution.isAnimating =>
        /\ gameState = RACING
        /\ raceExecution.currentRace # Null
        /\ Len(raceExecution.horsePositions) = Len(Val(raceExecution.currentRace).horseIds)
        /\ \A i \in 1..Len(raceExecution.horsePositions) :
              raceExecution.horsePositions[i].horseId
                 = Val(raceExecution.currentRace).horseIds[i]

\* The game has been resumed after a pause made between two races: it is
\* RACING with isAnimating true, no current race and no participants.
C38_AnimatingBetweenRaces ==
    /\ lastCall = [name |-> "resumeRacing", from |-> PAUSED]
    /\ gameState = RACING
    /\ raceExecution.isAnimating
    /\ raceExecution.currentRace = Null
    /\ raceExecution.horsePositions = <<>>

\* C39: in every state of a race the animation runs, a participant has a
\* finishTime if and only if its position is 100.
C39_FinishTimeIffAtLine ==
    (raceExecution.currentRace # Null /\ positionsRef # <<>>) =>
        \A i \in 1..Len(positionsRef) :
            positionsRef[i].finishTime # Null
               <=> positionsRef[i].position = Finish(Val(raceExecution.currentRace).distance)

\* A frame of the second race has taken one participant to position 100,
\* where it got its finishTime, and left another short of it without one.
C39_OneAtLineOneShort ==
    /\ lastCall.name = "frame"
    /\ raceExecution.currentRace # Null
    /\ Val(raceExecution.currentRace).roundNumber = 2
    /\ \E i, j \in 1..Len(positionsRef) :
          /\ positionsRef[i].position = Finish(Val(raceExecution.currentRace).distance)
          /\ positionsRef[i].finishTime = Some(now)
          /\ positionsRef[j].position > 0
          /\ positionsRef[j].position < Finish(Val(raceExecution.currentRace).distance)
          /\ positionsRef[j].finishTime = Null

\* C40: every recorded round result has each participant horse id of that
\* round's race exactly once and no other id, and its ranking positions are
\* exactly 1..HorsesPerRace (1..10 in the source).
C40_ResultCoversParticipants ==
    \A r \in 1..Len(results) :
        /\ r <= Len(Races)
        /\ LET ids == Races[r].horseIds
               entries == results[r].results
           IN /\ Len(ids) = HorsesPerRace
              /\ Len(entries) = HorsesPerRace
              /\ \A i \in 1..Len(ids) :
                    Cardinality({k \in 1..Len(entries) : entries[k].horseId = ids[i]}) = 1
              /\ \A k \in 1..Len(entries) :
                    \E i \in 1..Len(ids) : entries[k].horseId = ids[i]
              /\ {entries[k].position : k \in 1..Len(entries)} = 1..HorsesPerRace

\* Both races of a game are recorded, with different participants, and in
\* the second the participant of the first lane is not ranked first.
C40_TwoRoundsRecorded ==
    /\ Len(results) = 2
    /\ Len(Races) >= 2
    /\ Races[1].horseIds # Races[2].horseIds
    /\ results[2].results[1].horseId # Races[2].horseIds[1]

====
